---- MODULE Spec2Model ----
(***************************************************************************)
(* go-neopersist: the metadata resolver (parseTagsFromType), the generic   *)
(* Repository[T] (Save, FindByID, Delete, FindAll, FindByProperty, Find,   *)
(* FindOne, FindFirst) and the PersistenceManager (CreateRelation,         *)
(* getEntityMetaAndPK with its sync.Map cache, FindGraph).                 *)
(*                                                                         *)
(* Three specifications share the definitions:                             *)
(*   Spec       one caller, the DBRunner backed by a property graph that   *)
(*              executes the Cypher statement each handler builds;         *)
(*   SpecRunner one caller, the DBRunner a black box returning an error or *)
(*              any record set;                                            *)
(*   SpecConc   concurrent CreateRelation calls on one manager, the        *)
(*              sync.Map Load and Store of getEntityMetaAndPK interleaved. *)
(***************************************************************************)
EXTENDS Integers, Sequences, FiniteSets, TLC

VARIABLES
    app,        \* the record types the application uses (fixed at start)
    nodes,      \* the graph's nodes: neo4j.Node values
    rels,       \* the graph's relationships: neo4j.Relationship values
    metaCache,  \* PersistenceManager.metaCache: reflect.Type -> *entityMetadata
    stores,     \* history: reflect.Type -> how often metaCache.Store was called for it
    resolves,   \* history: reflect.Type -> how often parseTagsFromType ran for it
    runner,     \* the DBRunner: the graph executor, or a double with the response it gives
    procs,      \* the goroutines calling CreateRelation: where each is, and its locals
    saved,      \* history: <<type name, key>> -> the record of the latest successful Save not yet deleted
    last        \* the latest call: operation, arguments and what it returned

vars == <<app, nodes, rels, metaCache, stores, resolves, runner, procs, saved, last>>

(***************************************************************************)
(* Bounds of the model.                                                    *)
(***************************************************************************)
MaxNodeId == 2      \* element ids available to nodes
MaxRelId == 2       \* element ids available to relationships

(***************************************************************************)
(* Errors. ErrNotFound is the package's sentinel; the others stand for the *)
(* fmt.Errorf values of the handlers and for whatever the runner reports.  *)
(***************************************************************************)
NoErr == "nil"
ErrNotFound == "record not found"
ErrRunner == "runner error"
ErrExpectedOne == "expected 1 record but found more"
ErrNoReturnN == "could not find return value 'n' in query result"
ErrNotANode == "return value 'n' is not a node"
ErrNotStruct == "type is not a struct"
ErrMissingProperty == "field is missing 'property' tag component"
ErrNoPrimaryKey == "no primary key ('pk') tag defined for struct"
ErrNotPointer == "entity must be a non-nil pointer"
Panic == "panic"

(***************************************************************************)
(* Record types as reflect.Type shows them: a kind, for a pointer the kind *)
(* of its element, the struct's name and its fields in declaration order.  *)
(* A field's crud tag is the sequence of its comma-separated parts; the    *)
(* empty sequence is the absent (empty) tag.                               *)
(***************************************************************************)
Part(tok, arg) == [tok |-> tok, arg |-> arg]
PkPart == Part("pk", "")
PropPart(name) == Part("property:", name)
StructField(name, tag) == [name |-> name, tag |-> tag]
StructType(name, fields) == [kind |-> "struct", elemKind |-> "", name |-> name, fields |-> fields]

User ==
    StructType("User", << StructField("UserID", <<PkPart, PropPart("userId")>>),
                          StructField("Name", <<PropPart("name")>>) >>)

Post ==
    StructType("Post", << StructField("PostID", <<PkPart, PropPart("postId")>>),
                          StructField("Title", <<PropPart("title")>>) >>)

\* A type with a field that carries no crud tag.
Memo ==
    StructType("Memo", << StructField("MemoID", <<PkPart, PropPart("memoId")>>),
                          StructField("Body", <<PropPart("body")>>),
                          StructField("Draft", <<>>) >>)

\* A type whose second field names the primary key's property again.
Alias ==
    StructType("Alias", << StructField("Key", <<PkPart, PropPart("key")>>),
                           StructField("Alt", <<PropPart("key")>>) >>)

\* A type with two fields that name one property.
Twin ==
    StructType("Twin", << StructField("TwinID", <<PkPart, PropPart("twinId")>>),
                          StructField("First", <<PropPart("name")>>),
                          StructField("Second", <<PropPart("name")>>) >>)

FieldNames(typ) == {typ.fields[i].name : i \in 1..Len(typ.fields)}

(***************************************************************************)
(* parseTagsFromType                                                       *)
(***************************************************************************)
\* The first property token deciding the name instead of the last.
TagPropName_First(tag) ==
    LET idx == {j \in 1..Len(tag) : tag[j].tok = "property:"}
    IN  IF idx = {} THEN ""
        ELSE tag[CHOOSE j \in idx : \A k \in idx : j <= k].arg

\* The value propName holds after the loop over the tag's parts: the last
\* part with the prefix "property:", its prefix trimmed; "" when there is none.
TagPropName(tag) ==
    LET idx == {j \in 1..Len(tag) : tag[j].tok = "property:"}
    IN  IF idx = {} THEN ""
        ELSE tag[CHOOSE j \in idx : \A k \in idx : k <= j].arg

TagIsPk(tag) == \E j \in 1..Len(tag) : tag[j] = PkPart

EmptyMeta(name) ==
    [Label |-> name, PKField |-> "", PKProp |-> "", Mappings |-> <<>>]

RECURSIVE parseFields(_, _, _)
parseFields(typ, i, meta) ==
    IF i > Len(typ.fields)
    THEN IF meta.PKField = ""
         THEN [err |-> ErrNoPrimaryKey, meta |-> EmptyMeta("")]
         ELSE [err |-> NoErr, meta |-> meta]
    ELSE LET field == typ.fields[i]
             propName == TagPropName(field.tag)
         IN  IF field.tag = <<>>
             THEN parseFields(typ, i + 1, meta)
             ELSE IF propName = ""
             THEN [err |-> ErrMissingProperty, meta |-> EmptyMeta("")]
             ELSE parseFields(typ, i + 1,
                    [meta EXCEPT
                        !.PKField = IF TagIsPk(field.tag) THEN field.name ELSE @,
                        !.PKProp = IF TagIsPk(field.tag) THEN propName ELSE @,
                        !.Mappings = (field.name :> propName) @@ @])

parseTagsFromType(typ) ==
    LET kind == IF typ.kind = "ptr" THEN typ.elemKind ELSE typ.kind
    IN  IF kind # "struct"
        THEN [err |-> ErrNotStruct, meta |-> EmptyMeta("")]
        ELSE parseFields(typ, 1, EmptyMeta(typ.name))


(***************************************************************************)
(* Values. A record's fields are Go strings. What travels to and from the  *)
(* graph is a typed value: a string, an int64, nil, a node, a relationship.*)
(***************************************************************************)
StrVal(s) == [kind |-> "string", v |-> s]
IntVal(s) == [kind |-> "int64", v |-> s]
NilVal == [kind |-> "nil", v |-> ""]

NodeVal(id, label, props) ==
    [kind |-> "node", ElementId |-> id, Labels |-> <<label>>, Props |-> props]

RelVal(id, startId, endId, type, props) ==
    [kind |-> "rel", ElementId |-> id, StartElementId |-> startId,
     EndElementId |-> endId, Type |-> type, Props |-> props]

\* new(T): every field at its zero value.
ZeroOf(typ) == [f \in FieldNames(typ) |-> ""]

(***************************************************************************)
(* The record values the callers pass in.                                  *)
(***************************************************************************)
Keys == {"u1", "u2"}
PostKeys == {"p1"}
Names == {"Alice", "Alicia"}

EntitiesOf(typ) ==
    IF typ = User THEN {[UserID |-> k, Name |-> n] : k \in Keys, n \in Names}
    ELSE IF typ = Post THEN {[PostID |-> k, Title |-> n] : k \in PostKeys, n \in Names}
    ELSE IF typ = Memo THEN {[MemoID |-> k, Body |-> n, Draft |-> d] : k \in PostKeys, n \in Names, d \in {"", "wip"}}
    ELSE IF typ = Twin THEN {[TwinID |-> k, First |-> a, Second |-> b] : k \in PostKeys, a \in Names, b \in Names}
    ELSE {[Key |-> k, Alt |-> a] : k \in Keys, a \in Keys}

KeysOf(typ) == {e[parseTagsFromType(typ).meta.PKField] : e \in EntitiesOf(typ)}

Apps == {{User, Post}, {Memo}, {Alias}, {Twin}}
AllTypes == UNION Apps
AllKeys == Keys \cup PostKeys

\* NewRepository[T]: the repository holds the runner and T's metadata, parsed
\* once when the repository is made.
Repositories == [typ \in AllTypes |-> parseTagsFromType(typ).meta]
MetaOf(typ) == Repositories[typ]

(***************************************************************************)
(* The graph behind the runner: what the database does with the statement  *)
(* Neo4jExecutor.Run hands it. Node patterns match on label and on every   *)
(* listed property.                                                        *)
(***************************************************************************)
NodePattern(label, props) == [label |-> label, props |-> props]

Matching(ns, pat) ==
    {n \in ns : /\ \E i \in 1..Len(n.Labels) : n.Labels[i] = pat.label
                /\ \A p \in DOMAIN pat.props :
                      p \in DOMAIN n.Props /\ n.Props[p] = pat.props[p]}

ElementIds(elems) == {x.ElementId : x \in elems}

\* The database hands out an element id not in use (ids of deleted elements
\* come back into use).
FreshId(used, max) ==
    CHOOSE i \in 1..max : i \notin used /\ \A j \in 1..max : j \notin used => i <= j

FreeIds(used, max) == (1..max) \ used

\* The rows of RETURN n, one per node, in element-id order.
RECURSIVE RowsOf(_)
RowsOf(ns) ==
    IF ns = {} THEN <<>>
    ELSE LET n == CHOOSE x \in ns : \A y \in ns : x.ElementId <= y.ElementId
         IN  <<[Keys |-> <<"n">>, Values |-> <<n>>]>> \o RowsOf(ns \ {n})

\* MERGE (n:label props) SET n.p = v, ... RETURN n
RunMergeSet(q, ns, rs) ==
    LET found == Matching(ns, q.node)
        merged == IF found # {} THEN found
                  ELSE {NodeVal(FreshId(ElementIds(ns), MaxNodeId), q.node.label, q.node.props)}
        SetOn(n) == [n EXCEPT !.Props = q.set @@ @]
        after == {SetOn(n) : n \in merged}
    IN  [nodes |-> (ns \ found) \cup after, rels |-> rs, Records |-> RowsOf(after)]

\* MATCH (n:label props) RETURN n
RunMatchReturn(q, ns, rs) ==
    [nodes |-> ns, rels |-> rs, Records |-> RowsOf(Matching(ns, q.node))]

\* MATCH (n:label props) DETACH DELETE n
RunDetachDelete(q, ns, rs) ==
    LET gone == ElementIds(Matching(ns, q.node))
    IN  [nodes |-> {n \in ns : n.ElementId \notin gone},
         rels |-> {r \in rs : r.StartElementId \notin gone /\ r.EndElementId \notin gone},
         Records |-> <<>>]

\* MATCH (a:..) MATCH (b:..) CREATE (a)-[r:type props]->(b): one relationship
\* for every pair of an a and a b.
RECURSIVE CreateRels(_, _, _, _)
CreateRels(pairs, type, props, rs) ==
    IF pairs = {} THEN rs
    ELSE LET pr == CHOOSE x \in pairs : \A y \in pairs :
                        \/ x[1] < y[1]
                        \/ x[1] = y[1] /\ x[2] <= y[2]
             r == RelVal(FreshId(ElementIds(rs), MaxRelId), pr[1], pr[2], type, props)
         IN  CreateRels(pairs \ {pr}, type, props, rs \cup {r})

MatchedPairs(q, ns) ==
    ElementIds(Matching(ns, q.a)) \X ElementIds(Matching(ns, q.b))

\* MATCH a MATCH b MERGE (a)-[r]->(b): a pair that has the relationship
\* gets no second one.
RunMatchCreate_Merge(q, ns, rs) ==
    LET has == {pr \in MatchedPairs(q, ns) :
                    \E r \in rs : /\ r.StartElementId = pr[1] /\ r.EndElementId = pr[2]
                                  /\ r.Type = q.relType /\ r.Props = q.relProps}
    IN  [nodes |-> ns,
         rels |-> CreateRels(MatchedPairs(q, ns) \ has, q.relType, q.relProps, rs),
         Records |-> <<>>]

RunMatchCreate(q, ns, rs) ==
    [nodes |-> ns, rels |-> CreateRels(MatchedPairs(q, ns), q.relType, q.relProps, rs),
     Records |-> <<>>]

RunOnGraph(q, ns, rs) ==
    CASE q.clause = "MERGE-SET-RETURN" -> RunMergeSet(q, ns, rs)
      [] q.clause = "MATCH-RETURN" -> RunMatchReturn(q, ns, rs)
      [] q.clause = "MATCH-DETACH-DELETE" -> RunDetachDelete(q, ns, rs)
      [] q.clause = "MATCH-MATCH-CREATE" -> RunMatchCreate(q, ns, rs)

\* The id pools of the model suffice for the statement.
CanRun(q, ns, rs) ==
    CASE q.clause = "MERGE-SET-RETURN" ->
            Matching(ns, q.node) # {} \/ FreeIds(ElementIds(ns), MaxNodeId) # {}
      [] q.clause = "MATCH-MATCH-CREATE" ->
            Cardinality(MatchedPairs(q, ns)) <= Cardinality(FreeIds(ElementIds(rs), MaxRelId))
      [] OTHER -> TRUE

\* The runner of Spec: Neo4jExecutor in front of the graph.
GraphRunner == [kind |-> "graph"]

\* A runner that answers a delete matching no node with ErrNotFound.
Run_StrictDelete(q, ns, rs) ==
    [err |-> IF q.clause = "MATCH-DETACH-DELETE" /\ Matching(ns, q.node) = {}
             THEN ErrNotFound ELSE NoErr] @@ RunOnGraph(q, ns, rs)

\* DBRunner.Run on the graph: the statement runs and its rows come back.
Run(q, ns, rs) == [err |-> NoErr] @@ RunOnGraph(q, ns, rs)

(***************************************************************************)
(* Repository[T]: Save, FindByID, Delete and mapNodeToStruct.              *)
(***************************************************************************)
\* record.Get(key): the value of the first column of that name.
Get(record, key) ==
    LET idx == {i \in 1..Len(record.Keys) : record.Keys[i] = key}
    IN  IF idx = {} \/ Len(record.Values) < Len(record.Keys)
        THEN [ok |-> FALSE, val |-> NilVal]
        ELSE [ok |-> TRUE, val |-> record.Values[CHOOSE i \in idx : \A j \in idx : i <= j]]

\* field.Set(reflect.ValueOf(v)) on a string field: any other value aborts.
Assignable(v) == v.kind = "string"

\* mapNodeToStruct looking the property up under the field's name.
mapNodeToStruct_ByFieldName(node, entity, meta) ==
    LET present == {f \in DOMAIN meta.Mappings : f \in DOMAIN entity /\ f \in DOMAIN node.Props}
    IN  IF \E f \in present : ~Assignable(node.Props[f])
        THEN [err |-> Panic, ent |-> <<>>]
        ELSE [err |-> NoErr,
              ent |-> <<[f \in DOMAIN entity |->
                            IF f \in present THEN node.Props[f].v ELSE entity[f]]>>]

\* mapNodeToStruct: every mapped field whose property the node has is set
\* from it; reflect aborts on a value that is no string.
mapNodeToStruct(node, entity, meta) ==
    LET present == {f \in DOMAIN meta.Mappings :
                        f \in DOMAIN entity /\ meta.Mappings[f] \in DOMAIN node.Props}
    IN  IF \E f \in present : ~Assignable(node.Props[meta.Mappings[f]])
        THEN [err |-> Panic, ent |-> <<>>]
        ELSE [err |-> NoErr,
              ent |-> <<[f \in DOMAIN entity |->
                            IF f \in present THEN node.Props[meta.Mappings[f]].v
                            ELSE entity[f]]>>]

\* The SET map of Save: one entry "n."+propName per mapped field other than
\* the primary key. Two fields with one property name write the same entry,
\* and the map iteration order decides which value stays.
SetPropsOf(meta, entity) ==
    LET others == DOMAIN meta.Mappings \ {meta.PKField}
        props == {meta.Mappings[f] : f \in others}
    IN  {sp \in [props -> {StrVal(entity[f]) : f \in others}] :
            \A p \in props : \E f \in others : meta.Mappings[f] = p /\ sp[p] = StrVal(entity[f])}

\* Save merging on every mapped property instead of the primary key alone.
SaveQuery_MergeAllProps(meta, entity, setProps) ==
    [clause |-> "MERGE-SET-RETURN",
     node |-> NodePattern(meta.Label,
                [p \in {meta.PKProp} \cup DOMAIN setProps |->
                    IF p = meta.PKProp THEN StrVal(entity[meta.PKField]) ELSE setProps[p]]),
     set |-> setProps]

SaveQuery(meta, entity, setProps) ==
    [clause |-> "MERGE-SET-RETURN",
     node |-> NodePattern(meta.Label, meta.PKProp :> StrVal(entity[meta.PKField])),
     set |-> setProps]

\* Save dropping the runner's error.
SaveResult_Dropped(resp) == [err |-> NoErr, ent |-> <<>>]

SaveResult(resp) == [err |-> resp.err, ent |-> <<>>]

\* FindByID matching on the field's name instead of its property name.
FindByIDQuery_ByFieldName(meta, id) ==
    [clause |-> "MATCH-RETURN", node |-> NodePattern(meta.Label, meta.PKField :> StrVal(id))]

FindByIDQuery(meta, id) ==
    [clause |-> "MATCH-RETURN", node |-> NodePattern(meta.Label, meta.PKProp :> StrVal(id))]

FindByIDResult(typ, resp) ==
    IF resp.err # NoErr THEN [err |-> resp.err, ent |-> <<>>]
    ELSE IF Len(resp.Records) = 0 THEN [err |-> ErrNotFound, ent |-> <<>>]
    ELSE IF Len(resp.Records) > 1 THEN [err |-> ErrExpectedOne, ent |-> <<>>]
    ELSE LET nodeValue == Get(resp.Records[1], "n")
         IN  IF ~nodeValue.ok THEN [err |-> ErrNoReturnN, ent |-> <<>>]
             ELSE IF nodeValue.val.kind # "node" THEN [err |-> ErrNotANode, ent |-> <<>>]
             ELSE mapNodeToStruct(nodeValue.val, ZeroOf(typ), MetaOf(typ))

\* Delete matching on the label alone.
DeleteQuery_LabelOnly(meta, id) ==
    [clause |-> "MATCH-DETACH-DELETE", node |-> NodePattern(meta.Label, <<>>)]

DeleteQuery(meta, id) ==
    [clause |-> "MATCH-DETACH-DELETE", node |-> NodePattern(meta.Label, meta.PKProp :> StrVal(id))]

DeleteResult(resp) == [err |-> resp.err, ent |-> <<>>]

(***************************************************************************)
(* PersistenceManager: getEntityMetaAndPK and CreateRelation.              *)
(***************************************************************************)
\* An argument of CreateRelation: a pointer to a record, a nil pointer or a
\* value that is no pointer, with the type reflect sees behind it.
PtrTo(typ, val) == [kind |-> "ptr", typ |-> typ, val |-> val]

\* A pointer to a value of the type with every field set.
EntityFor(typ) == PtrTo(typ, [f \in FieldNames(typ) |-> "k1"])

\* A nil entity.
NilPtr == [kind |-> "nil", typ |-> StructType("", <<>>), val |-> <<>>]

\* sync.Map Load and Store.
CacheLoad(cache, typ) ==
    IF typ \in DOMAIN cache THEN [ok |-> TRUE, meta |-> cache[typ]]
    ELSE [ok |-> FALSE, meta |-> EmptyMeta("")]

\* A Store that keeps the entry already there.
CacheStore_KeepOld(cache, typ, meta) == cache

CacheStore(cache, typ, meta) == (typ :> meta) @@ cache

\* The history of Store calls.
CountStore(st, typ) == [st EXCEPT ![typ] = @ + 1]

\* getEntityMetaAndPK gets as far as parseTagsFromType: the entity is a
\* pointer and the cache has no entry for its type.
Misses(entity, cache) == entity.kind = "ptr" /\ ~CacheLoad(cache, entity.typ).ok

\* The history of parseTagsFromType runs.
CountResolve(rs, typ) == [rs EXCEPT ![typ] = @ + 1]
ResolvesAfter(rs, entity, cache) ==
    IF Misses(entity, cache) THEN CountResolve(rs, entity.typ) ELSE rs

NoMetaAndPK(err, cache, st) ==
    [err |-> err, meta |-> EmptyMeta(""), pk |-> "", cache |-> cache, stores |-> st]

\* getEntityMetaAndPK storing what the resolver returned before looking at
\* its error.
getEntityMetaAndPK_StoreFirst(entity, cache, st) ==
    IF entity.kind # "ptr" THEN NoMetaAndPK(ErrNotPointer, cache, st)
    ELSE LET cached == CacheLoad(cache, entity.typ)
             parsed == parseTagsFromType(entity.typ)
         IN  IF cached.ok
             THEN [err |-> NoErr, meta |-> cached.meta,
                   pk |-> entity.val[cached.meta.PKField], cache |-> cache,
                   stores |-> st]
             ELSE IF parsed.err # NoErr
             THEN NoMetaAndPK(parsed.err, CacheStore(cache, entity.typ, parsed.meta),
                              CountStore(st, entity.typ))
             ELSE [err |-> NoErr, meta |-> parsed.meta,
                   pk |-> entity.val[parsed.meta.PKField],
                   cache |-> CacheStore(cache, entity.typ, parsed.meta),
                   stores |-> CountStore(st, entity.typ)]

\* getEntityMetaAndPK run to its end without another call in between.
getEntityMetaAndPK(entity, cache, st) ==
    IF entity.kind # "ptr" THEN NoMetaAndPK(ErrNotPointer, cache, st)
    ELSE LET cached == CacheLoad(cache, entity.typ)
             parsed == parseTagsFromType(entity.typ)
         IN  IF cached.ok
             THEN [err |-> NoErr, meta |-> cached.meta,
                   pk |-> entity.val[cached.meta.PKField], cache |-> cache,
                   stores |-> st]
             ELSE IF parsed.err # NoErr THEN NoMetaAndPK(parsed.err, cache, st)
             ELSE [err |-> NoErr, meta |-> parsed.meta,
                   pk |-> entity.val[parsed.meta.PKField],
                   cache |-> CacheStore(cache, entity.typ, parsed.meta),
                   stores |-> CountStore(st, entity.typ)]

\* CreateRelation matching a by its label alone.
CreateRelationQuery_AnyFrom(fromMeta, fromPKVal, toMeta, toPKVal, relType, relProps) ==
    [clause |-> "MATCH-MATCH-CREATE",
     a |-> NodePattern(fromMeta.Label, <<>>),
     b |-> NodePattern(toMeta.Label, toMeta.PKProp :> StrVal(toPKVal)),
     relType |-> relType, relProps |-> relProps]

\* CreateRelation drawing the relationship from b to a.
CreateRelationQuery_Reversed(fromMeta, fromPKVal, toMeta, toPKVal, relType, relProps) ==
    [clause |-> "MATCH-MATCH-CREATE",
     a |-> NodePattern(toMeta.Label, toMeta.PKProp :> StrVal(toPKVal)),
     b |-> NodePattern(fromMeta.Label, fromMeta.PKProp :> StrVal(fromPKVal)),
     relType |-> relType, relProps |-> relProps]

CreateRelationQuery(fromMeta, fromPKVal, toMeta, toPKVal, relType, relProps) ==
    [clause |-> "MATCH-MATCH-CREATE",
     a |-> NodePattern(fromMeta.Label, fromMeta.PKProp :> StrVal(fromPKVal)),
     b |-> NodePattern(toMeta.Label, toMeta.PKProp :> StrVal(toPKVal)),
     relType |-> relType, relProps |-> relProps]

CreateRelationResult(resp) == [err |-> resp.err, ent |-> <<>>]

\* The records handed to CreateRelation: one per type, of the keys RelKeys.
RelKeys == {"u1", "p1"}

RelEntitiesOf(typ) ==
    {e \in EntitiesOf(typ) : /\ \A f \in DOMAIN e : e[f] \in AllKeys \cup {"Alice", ""}
                             /\ e[MetaOf(typ).PKField] \in RelKeys}

RelTypes == {"WROTE"}
RelPropsSet == {"year" :> IntVal("1813")}

(***************************************************************************)
(* Repository[T]: the lookups FindAll, FindByProperty, Find, FindOne and   *)
(* FindFirst, and PersistenceManager.FindGraph, each as what it returns    *)
(* for the response the runner gave. A []*T result is its elements with    *)
(* isNil telling the nil slice from an allocated one.                      *)
(***************************************************************************)
ErrWrapsNotFound == "runner: record not found"
ErrNotMapped == "property is not a mapped property for entity type"
ErrBuild == "could not build query"

\* errors.Is(err, target): err is target or wraps it.
Is(err, target) == err = target \/ (target = ErrNotFound /\ err = ErrWrapsNotFound)

\* What a caller-supplied QueryBuilder gives on Build.
QueryBuilders == {[buildErr |-> FALSE], [buildErr |-> TRUE]}
Build(qb) == [err |-> IF qb.buildErr THEN ErrBuild ELSE NoErr]

NilSlice(err) == [err |-> err, ent |-> <<>>, isNil |-> TRUE]
EmptySlice == [err |-> NoErr, ent |-> <<>>, isNil |-> FALSE]

\* The loop of FindAll and FindByProperty: column n of each row, asserted to
\* be a node without a check, mapped onto a new record.
RECURSIVE mapRecords(_, _, _, _)
mapRecords(typ, records, i, entities) ==
    IF i > Len(records) THEN [err |-> NoErr, ent |-> entities, isNil |-> FALSE]
    ELSE LET nodeValue == Get(records[i], "n")
         IN  IF ~nodeValue.ok \/ nodeValue.val.kind # "node" THEN NilSlice(Panic)
             ELSE LET m == mapNodeToStruct(nodeValue.val, ZeroOf(typ), MetaOf(typ))
                  IN  IF m.err # NoErr THEN NilSlice(m.err)
                      ELSE mapRecords(typ, records, i + 1, entities \o m.ent)

\* FindAll answering a result without rows with ErrNotFound.
FindAllResult_NotFoundOnEmpty(typ, resp) ==
    IF resp.err # NoErr THEN NilSlice(resp.err)
    ELSE IF Len(resp.Records) = 0 THEN NilSlice(ErrNotFound)
    ELSE mapRecords(typ, resp.Records, 1, <<>>)

FindAllResult(typ, resp) ==
    IF resp.err # NoErr
    THEN IF Is(resp.err, ErrNotFound) THEN EmptySlice ELSE NilSlice(resp.err)
    ELSE mapRecords(typ, resp.Records, 1, <<>>)

\* FindByProperty without the check of the property name.
IsMappedProperty_Any(meta, propName) == TRUE

\* The safety check of FindByProperty: propName is the property name of some
\* mapped field.
IsMappedProperty(meta, propName) ==
    \E f \in DOMAIN meta.Mappings : meta.Mappings[f] = propName

\* FindByProperty running the query before the safety check.
FindByPropertyResult_CheckLate(typ, propName, propValue, resp) ==
    IF resp.err # NoErr /\ ~Is(resp.err, ErrNotFound) THEN [ran |-> TRUE] @@ NilSlice(resp.err)
    ELSE IF ~IsMappedProperty(MetaOf(typ), propName)
    THEN [ran |-> TRUE] @@ NilSlice(ErrNotMapped)
    ELSE [ran |-> TRUE] @@
         (IF resp.err # NoErr THEN EmptySlice
          ELSE mapRecords(typ, resp.Records, 1, <<>>))

\* FindByProperty: ran tells whether the runner was invoked.
FindByPropertyResult(typ, propName, propValue, resp) ==
    IF ~IsMappedProperty(MetaOf(typ), propName)
    THEN [ran |-> FALSE] @@ NilSlice(ErrNotMapped)
    ELSE [ran |-> TRUE] @@
         (IF resp.err # NoErr
          THEN IF Is(resp.err, ErrNotFound) THEN EmptySlice ELSE NilSlice(resp.err)
          ELSE mapRecords(typ, resp.Records, 1, <<>>))

\* A column name cut at its dots.
DotParts ==
    [k \in {"n", "m", "u", "r", "p", "name", "count"} |-> <<k>>]
    @@ ("u.name" :> <<"u", "name">>) @@ ("u.userId" :> <<"u", "userId">>)

\* strings.HasSuffix(key, "."+propName)
HasDotSuffix(key, propName) ==
    Len(DotParts[key]) >= 2 /\ DotParts[key][Len(DotParts[key])] = propName

\* The columns matched on the very name only.
FoundValue_ExactOnly(record, propName) ==
    LET idx == {i \in 1..Len(record.Keys) : record.Keys[i] = propName}
    IN  IF idx = {} THEN [found |-> FALSE, val |-> NilVal]
        ELSE [found |-> TRUE, val |-> Get(record, record.Keys[CHOOSE i \in idx : \A j \in idx : i <= j]).val]

\* The first column whose name is the property name or ends in "."+name.
FoundValue(record, propName) ==
    LET idx == {i \in 1..Len(record.Keys) :
                    record.Keys[i] = propName \/ HasDotSuffix(record.Keys[i], propName)}
    IN  IF idx = {} THEN [found |-> FALSE, val |-> NilVal]
        ELSE [found |-> TRUE, val |-> Get(record, record.Keys[CHOOSE i \in idx : \A j \in idx : i <= j]).val]

\* The mapping of one row laying the matching columns over the node's
\* properties.
hydrate_ColumnsOverNode(typ, record) ==
    LET meta == MetaOf(typ)
        nodeIdx == {i \in 1..Len(record.Values) : record.Values[i].kind = "node"}
        fv(f) == FoundValue(record, meta.Mappings[f])
        isSet(f) == f \in DOMAIN meta.Mappings /\ fv(f).found /\ fv(f).val.kind # "nil"
        base == IF nodeIdx # {}
                THEN mapNodeToStruct(record.Values[CHOOSE i \in nodeIdx : \A j \in nodeIdx : i <= j],
                                     ZeroOf(typ), meta)
                ELSE [err |-> NoErr, ent |-> <<ZeroOf(typ)>>]
    IN  IF base.err # NoErr THEN base
        ELSE IF \E f \in FieldNames(typ) : isSet(f) /\ ~Assignable(fv(f).val)
        THEN [err |-> Panic, ent |-> <<>>]
        ELSE [err |-> NoErr,
              ent |-> <<[f \in FieldNames(typ) |->
                            IF isSet(f) THEN fv(f).val.v ELSE base.ent[1][f]]>>]

\* The mapping of one row taking the last node among the values.
hydrate_LastNode(typ, record) ==
    LET nodeIdx == {i \in 1..Len(record.Values) : record.Values[i].kind = "node"}
    IN  IF nodeIdx # {}
        THEN mapNodeToStruct(record.Values[CHOOSE i \in nodeIdx : \A j \in nodeIdx : j <= i],
                             ZeroOf(typ), MetaOf(typ))
        ELSE [err |-> NoErr, ent |-> <<ZeroOf(typ)>>]

\* The mapping of one row in Find, FindOne and FindFirst: the first node
\* among the values if there is one, else column by column.
hydrate(typ, record) ==
    LET meta == MetaOf(typ)
        nodeIdx == {i \in 1..Len(record.Values) : record.Values[i].kind = "node"}
        fv(f) == FoundValue(record, meta.Mappings[f])
        isSet(f) == f \in DOMAIN meta.Mappings /\ fv(f).found /\ fv(f).val.kind # "nil"
    IN  IF nodeIdx # {}
        THEN mapNodeToStruct(record.Values[CHOOSE i \in nodeIdx : \A j \in nodeIdx : i <= j],
                             ZeroOf(typ), meta)
        ELSE IF \E f \in FieldNames(typ) : isSet(f) /\ ~Assignable(fv(f).val)
        THEN [err |-> Panic, ent |-> <<>>]
        ELSE [err |-> NoErr,
              ent |-> <<[f \in FieldNames(typ) |-> IF isSet(f) THEN fv(f).val.v ELSE ""]>>]

RECURSIVE hydrateRecords(_, _, _, _)
hydrateRecords(typ, records, i, entities) ==
    IF i > Len(records) THEN [err |-> NoErr, ent |-> entities, isNil |-> entities = <<>>]
    ELSE LET h == hydrate(typ, records[i])
         IN  IF h.err # NoErr THEN NilSlice(h.err)
             ELSE hydrateRecords(typ, records, i + 1, entities \o h.ent)

FindResult(typ, qb, resp) ==
    IF Build(qb).err # NoErr THEN [ran |-> FALSE] @@ NilSlice(ErrBuild)
    ELSE [ran |-> TRUE] @@
         (IF resp.err # NoErr
          THEN IF Is(resp.err, ErrNotFound) THEN EmptySlice ELSE NilSlice(resp.err)
          ELSE hydrateRecords(typ, resp.Records, 1, <<>>))

\* FindOne taking the first of several rows.
FindOneResult_TakeFirst(typ, qb, resp) ==
    IF Build(qb).err # NoErr THEN [ran |-> FALSE, err |-> ErrBuild, ent |-> <<>>]
    ELSE [ran |-> TRUE] @@
         (IF resp.err # NoErr THEN [err |-> resp.err, ent |-> <<>>]
          ELSE IF Len(resp.Records) = 0 THEN [err |-> ErrNotFound, ent |-> <<>>]
          ELSE hydrate(typ, resp.Records[1]))

FindOneResult(typ, qb, resp) ==
    IF Build(qb).err # NoErr THEN [ran |-> FALSE, err |-> ErrBuild, ent |-> <<>>]
    ELSE [ran |-> TRUE] @@
         (IF resp.err # NoErr THEN [err |-> resp.err, ent |-> <<>>]
          ELSE IF Len(resp.Records) = 0 THEN [err |-> ErrNotFound, ent |-> <<>>]
          ELSE IF Len(resp.Records) > 1 THEN [err |-> ErrExpectedOne, ent |-> <<>>]
          ELSE hydrate(typ, resp.Records[1]))

FindFirstResult(typ, qb, resp) ==
    IF Build(qb).err # NoErr THEN [ran |-> FALSE, err |-> ErrBuild, ent |-> <<>>]
    ELSE [ran |-> TRUE] @@
         (IF resp.err # NoErr THEN [err |-> resp.err, ent |-> <<>>]
          ELSE IF Len(resp.Records) = 0 THEN [err |-> ErrNotFound, ent |-> <<>>]
          ELSE hydrate(typ, resp.Records[1]))

(***************************************************************************)
(* Repository[T]: Count, CountByProperty and CountWithQuery. A count comes *)
(* back as the digits of the int64; with an error the number is 0.         *)
(***************************************************************************)
ErrNoCount == "count value not found in query result"
ErrBuildCount == "could not build count query"

NoCount(err) == [err |-> err, ent |-> <<"0">>]

\* The column count of the first row, asserted to be an int64 without a
\* check.
firstCount(records) ==
    LET countValue == Get(records[1], "count")
    IN  IF ~countValue.ok THEN NoCount(ErrNoCount)
        ELSE IF countValue.val.kind # "int64" THEN [err |-> Panic, ent |-> <<>>]
        ELSE [err |-> NoErr, ent |-> <<countValue.val.v>>]

\* Count reading the first column whatever its name.
CountResult_AnyColumn(typ, resp) ==
    IF resp.err # NoErr THEN NoCount(resp.err)
    ELSE IF Len(resp.Records) = 0 THEN NoCount(NoErr)
    ELSE IF resp.Records[1].Values[1].kind # "int64" THEN [err |-> Panic, ent |-> <<>>]
    ELSE [err |-> NoErr, ent |-> <<resp.Records[1].Values[1].v>>]

CountResult(typ, resp) ==
    IF resp.err # NoErr THEN NoCount(resp.err)
    ELSE IF Len(resp.Records) = 0 THEN NoCount(NoErr)
    ELSE firstCount(resp.Records)

\* CountByProperty: the property name goes into the query unchecked.
CountByPropertyResult(typ, propName, propValue, resp) ==
    IF resp.err # NoErr THEN NoCount(resp.err)
    ELSE IF Len(resp.Records) = 0 THEN NoCount(NoErr)
    ELSE firstCount(resp.Records)

CountWithQueryResult(typ, qb, resp) ==
    IF Build(qb).err # NoErr THEN [ran |-> FALSE] @@ NoCount(ErrBuildCount)
    ELSE [ran |-> TRUE] @@
         (IF resp.err # NoErr
          THEN IF Is(resp.err, ErrNotFound) THEN NoCount(NoErr) ELSE NoCount(resp.err)
          ELSE IF Len(resp.Records) = 0 THEN NoCount(NoErr)
          ELSE firstCount(resp.Records))

\* models.GraphNode and models.Edge made of a node and a relationship.
GraphNode(v) == [ID |-> v.ElementId, Labels |-> v.Labels, Properties |-> v.Props]

Edge(v) ==
    [ID |-> v.ElementId, Source |-> v.StartElementId, Target |-> v.EndElementId,
     Type |-> v.Type, Properties |-> v.Props]

\* FindGraph never taking an element for seen.
Seen_Never(seenIDs, id) == FALSE

\* seenNodeIDs[id], seenEdgeIDs[id]
Seen(seenIDs, id) == id \in seenIDs

\* One value of a row: a node or relationship not seen yet is appended.
addValue(graph, v) ==
    IF v.kind = "node" /\ ~Seen(graph.seenNodeIDs, v.ElementId)
    THEN [graph EXCEPT !.Nodes = Append(@, GraphNode(v)),
                       !.seenNodeIDs = @ \cup {v.ElementId}]
    ELSE IF v.kind = "rel" /\ ~Seen(graph.seenEdgeIDs, v.ElementId)
    THEN [graph EXCEPT !.Edges = Append(@, Edge(v)),
                       !.seenEdgeIDs = @ \cup {v.ElementId}]
    ELSE graph

RECURSIVE addValues(_, _, _)
addValues(graph, values, j) ==
    IF j > Len(values) THEN graph
    ELSE addValues(addValue(graph, values[j]), values, j + 1)

RECURSIVE addRecords(_, _, _)
addRecords(graph, records, i) ==
    IF i > Len(records) THEN graph
    ELSE addRecords(addValues(graph, records[i].Values, 1), records, i + 1)

\* FindGraph returning an empty graph for a result without rows.
FindGraphResult_EmptyGraph(qb, resp) ==
    IF Build(qb).err # NoErr THEN [ran |-> FALSE, err |-> ErrBuild, ent |-> <<>>]
    ELSE [ran |-> TRUE] @@
         (IF resp.err # NoErr THEN [err |-> resp.err, ent |-> <<>>]
          ELSE LET graph == addRecords([Nodes |-> <<>>, Edges |-> <<>>,
                                        seenNodeIDs |-> {}, seenEdgeIDs |-> {}],
                                       resp.Records, 1)
               IN  [err |-> NoErr, ent |-> <<[Nodes |-> graph.Nodes, Edges |-> graph.Edges]>>])

\* FindGraph answering a graph without elements with ErrNotFound.
FindGraphResult_NotFoundWithoutElements(qb, resp) ==
    IF Build(qb).err # NoErr THEN [ran |-> FALSE, err |-> ErrBuild, ent |-> <<>>]
    ELSE [ran |-> TRUE] @@
         (IF resp.err # NoErr THEN [err |-> resp.err, ent |-> <<>>]
          ELSE LET graph == addRecords([Nodes |-> <<>>, Edges |-> <<>>,
                                        seenNodeIDs |-> {}, seenEdgeIDs |-> {}],
                                       resp.Records, 1)
               IN  IF graph.Nodes = <<>> /\ graph.Edges = <<>>
                   THEN [err |-> ErrNotFound, ent |-> <<>>]
                   ELSE [err |-> NoErr, ent |-> <<[Nodes |-> graph.Nodes, Edges |-> graph.Edges]>>])

FindGraphResult(qb, resp) ==
    IF Build(qb).err # NoErr THEN [ran |-> FALSE, err |-> ErrBuild, ent |-> <<>>]
    ELSE [ran |-> TRUE] @@
         (IF resp.err # NoErr THEN [err |-> resp.err, ent |-> <<>>]
          ELSE IF Len(resp.Records) = 0 THEN [err |-> ErrNotFound, ent |-> <<>>]
          ELSE LET graph == addRecords([Nodes |-> <<>>, Edges |-> <<>>,
                                        seenNodeIDs |-> {}, seenEdgeIDs |-> {}],
                                       resp.Records, 1)
               IN  [err |-> NoErr, ent |-> <<[Nodes |-> graph.Nodes, Edges |-> graph.Edges]>>])

(***************************************************************************)
(* Spec: one caller; the runner executes the statements on the graph.     *)
(***************************************************************************)
SavedKeys == {<<t.name, k>> : t \in AllTypes, k \in AllKeys}

\* What is kept of a call: the operation, the type and key it was about, the
\* error and record it returned, and of the state it started in: the record
\* saved under the key (prior), how many relationships it removed or
\* created (count), and whether it directly follows the Delete of a saved
\* record of the same key (afterDelete).
Call(op, typ, key, res) ==
    [op |-> op, typ |-> typ, key |-> key, err |-> res.err, ent |-> res.ent,
     prior |-> <<>>, count |-> 0, afterDelete |-> FALSE]

Init ==
    /\ app \in Apps
    /\ nodes = {}
    /\ rels = {}
    /\ metaCache = <<>>
    /\ stores = [t \in AllTypes |-> 0]
    /\ resolves = [t \in AllTypes |-> IF t \in app THEN 1 ELSE 0]
    /\ runner = GraphRunner
    /\ procs = <<>>
    /\ saved = [x \in SavedKeys |-> <<>>]
    /\ last = Call("none", "", "", [err |-> NoErr, ent |-> <<>>])

Save(typ, entity, setProps) ==
    LET meta == MetaOf(typ)
        q == SaveQuery(meta, entity, setProps)
        key == entity[meta.PKField]
    IN  /\ CanRun(q, nodes, rels)
        /\ \E resp \in {Run(q, nodes, rels)} :
            /\ nodes' = resp.nodes
            /\ rels' = resp.rels
            /\ saved' = IF resp.err = NoErr
                         THEN [saved EXCEPT ![<<typ.name, key>>] = <<entity>>]
                         ELSE saved
            /\ last' = [Call("Save", typ.name, key, SaveResult(resp))
                            EXCEPT !.prior = saved[<<typ.name, key>>]]
        /\ UNCHANGED <<app, metaCache, stores, resolves, runner, procs>>

FindByID(typ, id) ==
    /\ \E resp \in {Run(FindByIDQuery(MetaOf(typ), id), nodes, rels)} :
            last' = [Call("FindByID", typ.name, id, FindByIDResult(typ, resp))
                        EXCEPT !.afterDelete = /\ last.op = "Delete" /\ last.prior # <<>>
                                               /\ last.typ = typ.name /\ last.key = id]
    /\ UNCHANGED <<app, nodes, rels, metaCache, stores, resolves, runner, procs, saved>>

Delete(typ, id) ==
    /\ \E resp \in {Run(DeleteQuery(MetaOf(typ), id), nodes, rels)} :
            /\ nodes' = resp.nodes
            /\ rels' = resp.rels
            /\ saved' = IF resp.err = NoErr
                         THEN [saved EXCEPT ![<<typ.name, id>>] = <<>>]
                         ELSE saved
            /\ last' = [Call("Delete", typ.name, id, DeleteResult(resp))
                            EXCEPT !.prior = saved[<<typ.name, id>>],
                                   !.count = Cardinality(rels) - Cardinality(resp.rels)]
    /\ UNCHANGED <<app, metaCache, stores, resolves, runner, procs>>

CreateRelation(fromEntity, toEntity, relType, relProps) ==
    \E from \in {getEntityMetaAndPK(fromEntity, metaCache, stores)} :
        IF from.err # NoErr
        THEN /\ last' = Call("CreateRelation", "", "", [err |-> from.err, ent |-> <<>>])
             /\ resolves' = ResolvesAfter(resolves, fromEntity, metaCache)
             /\ UNCHANGED <<app, nodes, rels, metaCache, stores, runner, procs, saved>>
        ELSE \E to \in {getEntityMetaAndPK(toEntity, from.cache, from.stores)} :
            IF to.err # NoErr
            THEN /\ metaCache' = from.cache
                 /\ stores' = from.stores
                 /\ resolves' = ResolvesAfter(ResolvesAfter(resolves, fromEntity, metaCache),
                                               toEntity, from.cache)
                 /\ last' = Call("CreateRelation", from.meta.Label, from.pk,
                                  [err |-> to.err, ent |-> <<>>])
                 /\ UNCHANGED <<app, nodes, rels, runner, procs, saved>>
            ELSE LET q == CreateRelationQuery(from.meta, from.pk, to.meta, to.pk,
                                              relType, relProps)
                 IN  /\ CanRun(q, nodes, rels)
                     /\ \E resp \in {Run(q, nodes, rels)} :
                            /\ nodes' = resp.nodes
                            /\ rels' = resp.rels
                            /\ last' = [Call("CreateRelation", from.meta.Label, from.pk,
                                              CreateRelationResult(resp))
                                            EXCEPT !.ent = <<to.meta.Label, to.pk, relType, relProps>>,
                                                   !.count = Cardinality(resp.rels) - Cardinality(rels)]
                     /\ metaCache' = to.cache
                     /\ stores' = to.stores
                     /\ resolves' = ResolvesAfter(ResolvesAfter(resolves, fromEntity, metaCache),
                                                   toEntity, from.cache)
                     /\ UNCHANGED <<app, runner, procs, saved>>

Next ==
    \/ \E typ \in app : \E entity \in EntitiesOf(typ) :
            \E setProps \in SetPropsOf(MetaOf(typ), entity) : Save(typ, entity, setProps)
    \/ \E typ \in app : \E id \in KeysOf(typ) : FindByID(typ, id)
    \/ \E typ \in app : \E id \in KeysOf(typ) : Delete(typ, id)
    \/ \E ft \in app, tt \in app :
            \E fe \in RelEntitiesOf(ft), te \in RelEntitiesOf(tt) :
                \E relType \in RelTypes, relProps \in RelPropsSet :
                    CreateRelation(PtrTo(ft, fe), PtrTo(tt, te), relType, relProps)

Spec == Init /\ [][Next]_vars

(***************************************************************************)
(* SpecRunner: one caller; the DBRunner is a double that answers every    *)
(* Run with the response it was made with: an error, or rows.              *)
(***************************************************************************)
MaxRows == 2        \* rows in a response of the double

Node1 == NodeVal(1, "User", ("userId" :> StrVal("u1")) @@ ("name" :> StrVal("Alice")))
Node2 == NodeVal(2, "User", "userId" :> StrVal("u2"))
Node3 == NodeVal(3, "User", ("userId" :> StrVal("u3")) @@ ("name" :> IntVal("7")))
Rel1 == RelVal(1, 1, 2, "WROTE", <<>>)
Rel2 == RelVal(2, 1, 2, "WROTE", <<>>)

Row(keys, values) == [Keys |-> keys, Values |-> values]

\* A neo4j.Path: a value of its own type that holds nodes and relationships.
Path1 == [kind |-> "path", Nodes |-> <<Node1, Node2>>, Relationships |-> <<Rel1>>]

\* The rows the double answers with: nodes under n (one without a name, one
\* with a number for a name), a path of two nodes and a relationship,
\* projected columns, a null before a value, strings under n and count
\* beside a path, a count, and two nodes around a name in either order.
Rows ==
    { Row(<<"n">>, <<Node1>>), Row(<<"n">>, <<Node2>>),
      Row(<<"u", "r", "p">>, <<Node1, Rel1, Node2>>),
      Row(<<"u", "r", "p">>, <<Node1, Rel2, Node2>>),
      Row(<<"u.name", "u.userId">>, <<StrVal("Alice"), StrVal("u1")>>),
      Row(<<"name", "u.name">>, <<NilVal, StrVal("Alicia")>>),
      Row(<<"n">>, <<Node3>>),
      Row(<<"n", "count", "p">>, <<StrVal("u1"), StrVal("2"), Path1>>),
      Row(<<"count">>, <<IntVal("2")>>),
      Row(<<"m", "name", "u">>, <<Node2, StrVal("Alicia"), Node1>>),
      Row(<<"u", "name", "m">>, <<Node1, StrVal("Alicia"), Node2>>) }

RunnerErrors == {ErrRunner, ErrNotFound, ErrWrapsNotFound}

Responses ==
    {[kind |-> "double", err |-> e, Records |-> <<>>] : e \in RunnerErrors}
    \cup {[kind |-> "double", err |-> NoErr, Records |-> rs] :
            rs \in UNION {[1..n -> Rows] : n \in 0..MaxRows}}

\* The property names FindByProperty is asked for: mapped ones, a field's
\* name, one no type has.
PropNames == {"userId", "name", "body", "UserID", "email"}
PropValues == {"u1"}

\* What is kept of a call on the double: the operation, the type, the
\* argument (a key, a property name, a QueryBuilder), whether the runner was
\* invoked, and the error and value returned.
RunnerCall(op, typ, arg, ran, res) ==
    [op |-> op, typ |-> typ, arg |-> arg, ran |-> ran, err |-> res.err, ent |-> res.ent,
     isNil |-> IF "isNil" \in DOMAIN res THEN res.isNil ELSE res.ent = <<>>]

\* The repositories on the double: one type each.
RunnerApps == {{User}, {Memo}, {Twin}}

\* The entities handed to CreateRelation on the double.
RunnerEntities == {EntityFor(typ) : typ \in app} \cup {NilPtr}

InitRunner ==
    /\ app \in RunnerApps
    /\ nodes = {}
    /\ rels = {}
    /\ metaCache = <<>>
    /\ stores = [t \in AllTypes |-> 0]
    /\ resolves = [t \in AllTypes |-> IF t \in app THEN 1 ELSE 0]
    /\ runner \in Responses
    /\ procs = <<>>
    /\ saved = [x \in SavedKeys |-> <<>>]
    /\ last = RunnerCall("none", "", "", FALSE, [err |-> NoErr, ent |-> <<>>])

FindByIDR(typ, id) ==
    /\ last' = RunnerCall("FindByID", typ.name, id, TRUE, FindByIDResult(typ, runner))
    /\ UNCHANGED <<app, nodes, rels, metaCache, stores, resolves, runner, procs, saved>>

FindAllR(typ) ==
    /\ last' = RunnerCall("FindAll", typ.name, "", TRUE, FindAllResult(typ, runner))
    /\ UNCHANGED <<app, nodes, rels, metaCache, stores, resolves, runner, procs, saved>>

FindByPropertyR(typ, propName, propValue) ==
    /\ \E res \in {FindByPropertyResult(typ, propName, propValue, runner)} :
            last' = RunnerCall("FindByProperty", typ.name, propName, res.ran, res)
    /\ UNCHANGED <<app, nodes, rels, metaCache, stores, resolves, runner, procs, saved>>

FindR(typ, qb) ==
    /\ \E res \in {FindResult(typ, qb, runner)} :
            last' = RunnerCall("Find", typ.name, qb, res.ran, res)
    /\ UNCHANGED <<app, nodes, rels, metaCache, stores, resolves, runner, procs, saved>>

FindOneR(typ, qb) ==
    /\ \E res \in {FindOneResult(typ, qb, runner)} :
            last' = RunnerCall("FindOne", typ.name, qb, res.ran, res)
    /\ UNCHANGED <<app, nodes, rels, metaCache, stores, resolves, runner, procs, saved>>

FindFirstR(typ, qb) ==
    /\ \E res \in {FindFirstResult(typ, qb, runner)} :
            last' = RunnerCall("FindFirst", typ.name, qb, res.ran, res)
    /\ UNCHANGED <<app, nodes, rels, metaCache, stores, resolves, runner, procs, saved>>

FindGraphR(qb) ==
    /\ \E res \in {FindGraphResult(qb, runner)} :
            last' = RunnerCall("FindGraph", "", qb, res.ran, res)
    /\ UNCHANGED <<app, nodes, rels, metaCache, stores, resolves, runner, procs, saved>>

SaveR(typ, entity) ==
    /\ last' = RunnerCall("Save", typ.name, entity[MetaOf(typ).PKField], TRUE, SaveResult(runner))
    /\ UNCHANGED <<app, nodes, rels, metaCache, stores, resolves, runner, procs, saved>>

DeleteR(typ, id) ==
    /\ last' = RunnerCall("Delete", typ.name, id, TRUE, DeleteResult(runner))
    /\ UNCHANGED <<app, nodes, rels, metaCache, stores, resolves, runner, procs, saved>>

CountR(typ) ==
    /\ last' = RunnerCall("Count", typ.name, "", TRUE, CountResult(typ, runner))
    /\ UNCHANGED <<app, nodes, rels, metaCache, stores, resolves, runner, procs, saved>>

CountByPropertyR(typ, propName, propValue) ==
    /\ last' = RunnerCall("CountByProperty", typ.name, propName, TRUE,
                          CountByPropertyResult(typ, propName, propValue, runner))
    /\ UNCHANGED <<app, nodes, rels, metaCache, stores, resolves, runner, procs, saved>>

CountWithQueryR(typ, qb) ==
    /\ \E res \in {CountWithQueryResult(typ, qb, runner)} :
            last' = RunnerCall("CountWithQuery", typ.name, qb, res.ran, res)
    /\ UNCHANGED <<app, nodes, rels, metaCache, stores, resolves, runner, procs, saved>>

\* CreateRelation on the double: the entities resolve one after the other,
\* and when both did the statement is built and the double answers.
CreateRelationR(fromEntity, toEntity) ==
    /\ \E from \in {getEntityMetaAndPK(fromEntity, metaCache, stores)} :
        IF from.err # NoErr
        THEN /\ last' = RunnerCall("CreateRelation", fromEntity.typ.name, "", FALSE,
                                   [err |-> from.err, ent |-> <<>>])
             /\ resolves' = ResolvesAfter(resolves, fromEntity, metaCache)
             /\ UNCHANGED <<metaCache, stores>>
        ELSE \E to \in {getEntityMetaAndPK(toEntity, from.cache, from.stores)} :
            /\ metaCache' = to.cache
            /\ stores' = to.stores
            /\ resolves' = ResolvesAfter(ResolvesAfter(resolves, fromEntity, metaCache),
                                          toEntity, from.cache)
            /\ last' = IF to.err # NoErr
                       THEN RunnerCall("CreateRelation", fromEntity.typ.name, from.pk, FALSE,
                                       [err |-> to.err, ent |-> <<>>])
                       ELSE RunnerCall("CreateRelation", fromEntity.typ.name, from.pk, TRUE,
                                       CreateRelationResult(runner))
    /\ UNCHANGED <<app, nodes, rels, runner, procs, saved>>

NextRunner ==
    \/ \E typ \in app : \E id \in KeysOf(typ) : FindByIDR(typ, id)
    \/ \E typ \in app : FindAllR(typ)
    \/ \E typ \in app : \E propName \in PropNames, propValue \in PropValues :
            FindByPropertyR(typ, propName, propValue)
    \/ \E typ \in app : \E qb \in QueryBuilders : FindR(typ, qb)
    \/ \E typ \in app : \E qb \in QueryBuilders : FindOneR(typ, qb)
    \/ \E typ \in app : \E qb \in QueryBuilders : FindFirstR(typ, qb)
    \/ \E qb \in QueryBuilders : FindGraphR(qb)
    \/ \E typ \in app : SaveR(typ, EntityFor(typ).val)
    \/ \E typ \in app : \E id \in KeysOf(typ) : DeleteR(typ, id)
    \/ \E typ \in app : CountR(typ)
    \/ \E typ \in app : \E propName \in PropNames, propValue \in PropValues :
            CountByPropertyR(typ, propName, propValue)
    \/ \E typ \in app : \E qb \in QueryBuilders : CountWithQueryR(typ, qb)
    \/ \E fe \in RunnerEntities, te \in RunnerEntities : CreateRelationR(fe, te)

SpecRunner == InitRunner /\ [][NextRunner]_vars

(***************************************************************************)
(* SpecConc: goroutines calling CreateRelation on one manager. Each call   *)
(* is cut where another goroutine can come in between: at the Load and at  *)
(* the Store of getEntityMetaAndPK, for the from-entity and then for the   *)
(* to-entity, and at the Run. The runner answers with an error or without. *)
(***************************************************************************)
NumProcs == 2       \* goroutines

Procs == 1..NumProcs

ConcTypes == {User, Post}

\* The entities the goroutines pass: a record of either type, or nil.
ConcEntities ==
    {PtrTo(User, [UserID |-> "u1", Name |-> "Alice"]),
     PtrTo(Post, [PostID |-> "p1", Title |-> "Alice"]),
     NilPtr}

\* A goroutine between calls. What its latest call was handed stays in
\* fromMeta and toMeta until its next call.
IdleProc ==
    [pc |-> "idle", side |-> "", from |-> NilPtr, to |-> NilPtr,
     meta |-> <<>>, fromMeta |-> <<>>, toMeta |-> <<>>, err |-> NoErr]

AnyRunner == [kind |-> "any"]

InitConc ==
    /\ app = ConcTypes
    /\ nodes = {}
    /\ rels = {}
    /\ metaCache = <<>>
    /\ stores = [t \in AllTypes |-> 0]
    /\ resolves = [t \in AllTypes |-> 0]
    /\ runner = AnyRunner
    /\ procs = [p \in Procs |-> IdleProc]
    /\ saved = [x \in SavedKeys |-> <<>>]
    /\ last = Call("none", "", "", [err |-> NoErr, ent |-> <<>>])

\* The entity getEntityMetaAndPK is working on.
EntityOf(pr) == IF pr.side = "from" THEN pr.from ELSE pr.to

\* getEntityMetaAndPK returns meta: CreateRelation goes on with the
\* to-entity, or to the query.
Handed(pr, meta) ==
    IF pr.side = "from"
    THEN [pr EXCEPT !.fromMeta = <<meta>>, !.meta = <<>>, !.side = "to", !.pc = "load"]
    ELSE [pr EXCEPT !.toMeta = <<meta>>, !.meta = <<>>, !.pc = "run"]

\* CreateRelation returns err.
Returned(pr, err) == [pr EXCEPT !.pc = "idle", !.err = err, !.meta = <<>>]

CallCreateRelation(p, fromEntity, toEntity) ==
    /\ procs[p].pc = "idle"
    /\ procs' = [procs EXCEPT ![p] = [IdleProc EXCEPT !.pc = "load", !.side = "from",
                                                     !.from = fromEntity, !.to = toEntity]]
    /\ UNCHANGED <<app, nodes, rels, metaCache, stores, resolves, runner, saved, last>>

\* The pointer check, metaCache.Load and, on a miss, parseTagsFromType.
LoadMeta(p) ==
    LET pr == procs[p]
        entity == EntityOf(pr)
        cached == CacheLoad(metaCache, entity.typ)
        parsed == parseTagsFromType(entity.typ)
    IN  /\ pr.pc = "load"
        /\ procs' = [procs EXCEPT ![p] =
                        IF entity.kind # "ptr" THEN Returned(pr, ErrNotPointer)
                        ELSE IF cached.ok THEN Handed(pr, cached.meta)
                        ELSE IF parsed.err # NoErr THEN Returned(pr, parsed.err)
                        ELSE [pr EXCEPT !.pc = "store", !.meta = <<parsed.meta>>]]
        /\ resolves' = ResolvesAfter(resolves, entity, metaCache)
        /\ UNCHANGED <<app, nodes, rels, metaCache, stores, runner, saved, last>>

\* metaCache.Store of what this goroutine parsed.
StoreMeta(p) ==
    LET pr == procs[p]
        entity == EntityOf(pr)
    IN  /\ pr.pc = "store"
        /\ metaCache' = CacheStore(metaCache, entity.typ, pr.meta[1])
        /\ stores' = CountStore(stores, entity.typ)
        /\ procs' = [procs EXCEPT ![p] = Handed(pr, pr.meta[1])]
        /\ UNCHANGED <<app, nodes, rels, resolves, runner, saved, last>>

\* The query is built and run; the runner's error is the call's.
RunCreateRelation(p, err) ==
    /\ procs[p].pc = "run"
    /\ procs' = [procs EXCEPT ![p] = Returned(procs[p], err)]
    /\ UNCHANGED <<app, nodes, rels, metaCache, stores, resolves, runner, saved, last>>

NextConc ==
    \/ \E p \in Procs : \E fromEntity \in ConcEntities, toEntity \in ConcEntities :
            CallCreateRelation(p, fromEntity, toEntity)
    \/ \E p \in Procs : LoadMeta(p)
    \/ \E p \in Procs : StoreMeta(p)
    \/ \E p \in Procs : \E err \in {NoErr, ErrRunner} : RunCreateRelation(p, err)

SpecConc == InitConc /\ [][NextConc]_vars

(***************************************************************************)
(* SpecManager: one caller of one manager: RepositoryFor and CreateRelation *)
(* for types of every tag shape, the runner answering with an error or     *)
(* without.                                                                *)
(***************************************************************************)
MaxResolves == 2    \* parseTagsFromType runs counted per type

\* The parts a crud tag is made of: the marker, property tokens with a
\* name and with none, and a word the resolver does not know.
OtherPart == Part("index", "")
TagParts == {PkPart, PropPart("key"), PropPart("alt"), PropPart(""), OtherPart}

\* Tags of up to two parts, and structs of one or two fields carrying them.
Tags == {<<>>} \cup {<<p>> : p \in TagParts} \cup {<<p, q>> : p \in TagParts, q \in TagParts}

TaggedStructs ==
    {StructType("T", <<StructField("ID", t)>>) : t \in Tags}
    \cup {StructType("T", <<StructField("ID", t), StructField("Name", u)>>) : t \in Tags, u \in Tags}

\* reflect.PtrTo(elem), and a type that is neither struct nor pointer.
PtrType(elem) ==
    [kind |-> "ptr", elemKind |-> elem.kind, name |-> elem.name, fields |-> elem.fields]

IntType == [kind |-> "int", elemKind |-> "", name |-> "int", fields |-> <<>>]

ResolverTypes ==
    TaggedStructs
    \cup {User, Post, Memo, Alias, Twin, IntType,
          PtrType(User), PtrType(PtrType(User)), PtrType(IntType)}

\* The types one run of the manager sees.
ManagerApps == {{t} : t \in ResolverTypes} \cup {{User, Post}, {User, IntType}}

\* What the manager's runner answers the repositories and FindGraph with.
ManagerRunner == [kind |-> "double", err |-> NoErr, Records |-> <<Row(<<"n">>, <<Node1>>)>>]

\* NewRepository[T]: parseTags[T], and on success the repository with the
\* metadata.
NewRepository(typ) == parseTagsFromType(typ)

\* The entities handed to CreateRelation: a pointer to a value of the type
\* (of a struct: every field set), or nil.
ManagerEntities == {EntityFor(typ) : typ \in {t \in app : t.kind # "ptr"}} \cup {NilPtr}

\* What is kept of a call on the manager: the operation, the type (of
\* CreateRelation: of the from-entity), the error, and the metadata or
\* primary keys it came to.
ManagerCall(op, typ, err, ent) == [op |-> op, typ |-> typ, err |-> err, ent |-> ent]

InitManager ==
    /\ app \in ManagerApps
    /\ nodes = {}
    /\ rels = {}
    /\ metaCache = <<>>
    /\ stores = [t \in app |-> 0]
    /\ resolves = [t \in app |-> 0]
    /\ runner = ManagerRunner
    /\ procs = <<>>
    /\ saved = [x \in SavedKeys |-> <<>>]
    /\ last = ManagerCall("none", IntType, NoErr, <<>>)

RepositoryFor(typ) ==
    /\ resolves[typ] < MaxResolves
    /\ \E repo \in {NewRepository(typ)} :
            last' = ManagerCall("RepositoryFor", typ, repo.err,
                                IF repo.err = NoErr THEN <<repo.meta>> ELSE <<>>)
    /\ resolves' = CountResolve(resolves, typ)
    /\ UNCHANGED <<app, nodes, rels, metaCache, stores, runner, procs, saved>>

\* CreateRelation with nobody in between; err is what the runner answers.
CreateRelationM(fromEntity, toEntity, err) ==
    /\ \E from \in {getEntityMetaAndPK(fromEntity, metaCache, stores)} :
        IF from.err # NoErr
        THEN /\ last' = ManagerCall("CreateRelation", fromEntity.typ, from.err, <<>>)
             /\ resolves' = ResolvesAfter(resolves, fromEntity, metaCache)
             /\ UNCHANGED <<metaCache, stores>>
        ELSE \E to \in {getEntityMetaAndPK(toEntity, from.cache, from.stores)} :
            /\ metaCache' = to.cache
            /\ stores' = to.stores
            /\ resolves' = ResolvesAfter(ResolvesAfter(resolves, fromEntity, metaCache),
                                          toEntity, from.cache)
            /\ last' = ManagerCall("CreateRelation", fromEntity.typ,
                                   IF to.err # NoErr THEN to.err ELSE err,
                                   IF to.err # NoErr THEN <<>> ELSE <<from.pk, to.pk>>)
    /\ \A t \in app : resolves'[t] <= MaxResolves
    /\ UNCHANGED <<app, nodes, rels, runner, procs, saved>>

\* The operations of a repository the manager made for the type, and
\* FindGraph: they run on the manager's runner.
NextRepository(typ) ==
    \/ \E id \in KeysOf(typ) : FindByIDR(typ, id)
    \/ FindAllR(typ)
    \/ \E propName \in PropNames, propValue \in PropValues :
            FindByPropertyR(typ, propName, propValue)
    \/ \E qb \in QueryBuilders : FindR(typ, qb)
    \/ \E qb \in QueryBuilders : FindOneR(typ, qb)
    \/ \E qb \in QueryBuilders : FindFirstR(typ, qb)
    \/ SaveR(typ, EntityFor(typ).val)
    \/ \E id \in KeysOf(typ) : DeleteR(typ, id)
    \/ CountR(typ)
    \/ \E propName \in PropNames, propValue \in PropValues :
            CountByPropertyR(typ, propName, propValue)
    \/ \E qb \in QueryBuilders : CountWithQueryR(typ, qb)

NextManager ==
    \/ \E typ \in app : RepositoryFor(typ)
    \/ \E fromEntity \in ManagerEntities, toEntity \in ManagerEntities :
            \E err \in {NoErr, ErrRunner} : CreateRelationM(fromEntity, toEntity, err)
    \/ \E typ \in app \cap AllTypes : NextRepository(typ)
    \/ \E qb \in QueryBuilders : FindGraphR(qb)

SpecManager == InitManager /\ [][NextManager]_vars

(***************************************************************************)
(* Properties of Spec.                                                     *)
(***************************************************************************)
TypeNamed(name) == CHOOSE t \in AllTypes : t.name = name

\* The nodes a lookup by primary key matches.
NodesOfKey(typ, key, ns) ==
    Matching(ns, NodePattern(MetaOf(typ).Label, MetaOf(typ).PKProp :> StrVal(key)))

NodesOfType(typ, ns) == Matching(ns, NodePattern(MetaOf(typ).Label, <<>>))

LiveKeys(typ) == {k \in KeysOf(typ) : saved[<<typ.name, k>>] # <<>>}

\* The node of a saved record carries each non-key mapped field's value.
CarriesRecord(typ, n, e) ==
    \A f \in DOMAIN MetaOf(typ).Mappings \ {MetaOf(typ).PKField} :
        /\ MetaOf(typ).Mappings[f] \in DOMAIN n.Props
        /\ n.Props[MetaOf(typ).Mappings[f]] = StrVal(e[f])

UpsertHolds(typ) ==
    /\ Cardinality(NodesOfType(typ, nodes)) = Cardinality(LiveKeys(typ))
    /\ \A k \in LiveKeys(typ) :
          /\ Cardinality(NodesOfKey(typ, k, nodes)) = 1
          /\ \A n \in NodesOfKey(typ, k, nodes) :
                CarriesRecord(typ, n, saved[<<typ.name, k>>][1])

\* The type maps distinct fields to distinct property names.
DistinctProps(typ) ==
    \A f, g \in DOMAIN MetaOf(typ).Mappings :
        f # g => MetaOf(typ).Mappings[f] # MetaOf(typ).Mappings[g]

\* No field other than the primary key maps to the primary key's property.
KeyPropOwn(typ) ==
    \A f \in DOMAIN MetaOf(typ).Mappings :
        f # MetaOf(typ).PKField => MetaOf(typ).Mappings[f] # MetaOf(typ).PKProp

\* C1 as stated: after any sequence of calls with successful Saves, the graph
\* holds exactly one node per saved (and not deleted) primary key of each
\* type, and the node's non-key properties are the fields of the latest
\* record saved under the key.
C1_SaveUpsertAnyType == \A typ \in app : UpsertHolds(typ)

\* C1 amended: the same, for every type that maps distinct fields to distinct
\* property names.
C1_SaveUpsert == \A typ \in app : DistinctProps(typ) => UpsertHolds(typ)

\* A key was saved again with other field values, and a second key is saved.
C1_Witness ==
    /\ last.op = "Save" /\ last.err = NoErr /\ last.typ = "User"
    /\ last.prior # <<>>
    /\ last.prior # saved[<<last.typ, last.key>>]
    /\ Cardinality(LiveKeys(User)) = 2
    /\ Cardinality(nodes) = 2

\* C2 as stated: FindByID(k) returns ErrNotFound exactly when k was never
\* saved or was deleted after its latest Save.
C2_NotFoundIffNotSavedAnyType ==
    last.op = "FindByID" =>
        (last.err = ErrNotFound <=> saved[<<last.typ, last.key>>] = <<>>)

\* C2 amended: the same, for every type in which no other field maps to the
\* primary key's property.
C2_NotFoundIffNotSaved ==
    (last.op = "FindByID" /\ KeyPropOwn(TypeNamed(last.typ))) =>
        (last.err = ErrNotFound <=> saved[<<last.typ, last.key>>] = <<>>)

\* FindByID returns ErrNotFound right after the Delete of a saved record of
\* that key.
C2_Witness ==
    /\ last.op = "FindByID" /\ last.err = ErrNotFound /\ last.afterDelete
    /\ last.typ = "User"

\* The record FindByID builds from the latest record e saved under the key:
\* e's mapped fields, every other field zero.
MappedPart(typ, e) ==
    [f \in DOMAIN e |-> IF f \in DOMAIN MetaOf(typ).Mappings THEN e[f] ELSE ""]

\* C3 as stated: FindByID of a saved key returns a record equal to the
\* latest record saved under it.
C3_RoundTripAnyType ==
    (last.op = "FindByID" /\ saved[<<last.typ, last.key>>] # <<>>) =>
        (last.err = NoErr /\ last.ent = saved[<<last.typ, last.key>>])

\* C3 amended: for a type that maps distinct fields to distinct property
\* names, FindByID of a saved key returns the latest record saved under it in
\* every mapped field, and the zero value in every field without a tag.
C3_RoundTrip ==
    (/\ last.op = "FindByID" /\ saved[<<last.typ, last.key>>] # <<>>
     /\ DistinctProps(TypeNamed(last.typ))) =>
        /\ last.err = NoErr
        /\ last.ent = <<MappedPart(TypeNamed(last.typ), saved[<<last.typ, last.key>>][1])>>

\* FindByID returned a record whose untagged field was set when it was saved.
C3_Witness ==
    /\ last.op = "FindByID" /\ last.err = NoErr /\ last.typ = "Memo"
    /\ saved[<<"Memo", last.key>>] # <<>>
    /\ saved[<<"Memo", last.key>>][1].Draft = "wip"
    /\ last.ent[1].Body = "Alicia"

\* What FindByID(typ, key) returns in a graph.
Lookup(typ, key, ns, rs) ==
    FindByIDResult(typ, Run(FindByIDQuery(MetaOf(typ), key), ns, rs))

NoDanglingRelationship ==
    \A r \in rels : /\ r.StartElementId \in ElementIds(nodes)
                     /\ r.EndElementId \in ElementIds(nodes)

\* A Delete step removes the nodes of its key with the relationships at them,
\* and nothing else; every other key reads as before.
DeleteDetaches ==
    last'.op = "Delete" =>
        LET typ == TypeNamed(last'.typ)
            gone == NodesOfKey(typ, last'.key, nodes)
        IN  /\ nodes' = nodes \ gone
            /\ NodesOfKey(typ, last'.key, nodes') = {}
            /\ rels' = {r \in rels : /\ r.StartElementId \notin ElementIds(gone)
                                      /\ r.EndElementId \notin ElementIds(gone)}
            /\ \A t \in app : \A k \in KeysOf(t) :
                    (t # typ \/ k # last'.key) =>
                        Lookup(t, k, nodes', rels') = Lookup(t, k, nodes, rels)

\* C4: no relationship starts or ends at a node that is gone, and Delete
\* removes the node of its key with every relationship at it and leaves every
\* other node as FindByID read it before.
C4_DeleteDetaches == []NoDanglingRelationship /\ [][DeleteDetaches]_vars

\* A Delete removed a node and a relationship at it; the other end is still there.
C4_Witness ==
    /\ last.op = "Delete" /\ last.prior # <<>> /\ last.count > 0
    /\ nodes # {}
    /\ rels = {}

\* A CreateRelation step leaves the nodes as they are, and between two
\* entities that each match one node a successful one adds one relationship,
\* from the from-entity's node to the to-entity's, of the type and with the
\* properties given.
CreateRelationFrame ==
    last'.op = "CreateRelation" =>
        /\ nodes' = nodes
        /\ (last'.err = NoErr /\ Len(last'.ent) = 4) =>
            LET a == NodesOfKey(TypeNamed(last'.typ), last'.key, nodes)
                b == NodesOfKey(TypeNamed(last'.ent[1]), last'.ent[2], nodes)
            IN  (Cardinality(a) = 1 /\ Cardinality(b) = 1) =>
                    /\ rels \subseteq rels'
                    /\ Cardinality(rels' \ rels) = 1
                    /\ \A r \in rels' \ rels :
                            /\ {r.StartElementId} = ElementIds(a)
                            /\ {r.EndElementId} = ElementIds(b)
                            /\ r.Type = last'.ent[3]
                            /\ r.Props = last'.ent[4]

\* C14: CreateRelation never creates, deletes or changes a node, and when
\* each entity matches one node a successful call adds exactly one
\* relationship, directed from the from-entity's node to the to-entity's node,
\* with the given type and properties.
C14_CreateRelationFrame == [][CreateRelationFrame]_vars

\* A relationship was drawn from a User's node to a Post's node.
C14_Witness ==
    /\ last.op = "CreateRelation" /\ last.err = NoErr /\ last.count = 1
    /\ last.typ = "User" /\ Len(last.ent) = 4 /\ last.ent[1] = "Post"
    /\ \E r \in rels : \E a \in NodesOfKey(User, last.key, nodes) :
         \E b \in NodesOfKey(Post, last.ent[2], nodes) :
            r.StartElementId = a.ElementId /\ r.EndElementId = b.ElementId

\* A CreateRelation step whose statement ran with no node for the
\* from-entity or none for the to-entity returns no error and leaves nodes
\* and relationships as they were.
CreateRelationUnmatched ==
    (last'.op = "CreateRelation" /\ Len(last'.ent) = 4) =>
        LET a == NodesOfKey(TypeNamed(last'.typ), last'.key, nodes)
            b == NodesOfKey(TypeNamed(last'.ent[1]), last'.ent[2], nodes)
        IN  (a = {} \/ b = {}) =>
                /\ last'.err = NoErr
                /\ nodes' = nodes
                /\ rels' = rels

\* C24: CreateRelation with an entity that has no node in the store returns
\* no error, creates no relationship and leaves the store unchanged.
C24_CreateRelationUnmatchedSilent == [][CreateRelationUnmatched]_vars

\* CreateRelation returned without error and without a relationship: the
\* to-entity has a node, the from-entity has none.
C24_Witness ==
    /\ last.op = "CreateRelation" /\ last.err = NoErr /\ last.count = 0
    /\ Len(last.ent) = 4
    /\ NodesOfKey(TypeNamed(last.typ), last.key, nodes) = {}
    /\ NodesOfType(TypeNamed(last.typ), nodes) # {}
    /\ NodesOfKey(TypeNamed(last.ent[1]), last.ent[2], nodes) # {}

\* The relationships of that type and those properties from a node of a to
\* a node of b.
Between(rs, a, b, type, props) ==
    {r \in rs : /\ r.StartElementId \in ElementIds(a)
                /\ r.EndElementId \in ElementIds(b)
                /\ r.Type = type
                /\ r.Props = props}

\* A successful CreateRelation step between two entities with one node each
\* leaves one relationship more of its type and properties between the two
\* nodes than there were, whether or not there was one.
CreateRelationAppends ==
    (last'.op = "CreateRelation" /\ last'.err = NoErr /\ Len(last'.ent) = 4) =>
        LET a == NodesOfKey(TypeNamed(last'.typ), last'.key, nodes)
            b == NodesOfKey(TypeNamed(last'.ent[1]), last'.ent[2], nodes)
        IN  (Cardinality(a) = 1 /\ Cardinality(b) = 1) =>
                Cardinality(Between(rels', a, b, last'.ent[3], last'.ent[4]))
                    = Cardinality(Between(rels, a, b, last'.ent[3], last'.ent[4])) + 1

\* C25: CreateRelation is not an upsert: every successful call with the same
\* two existing entities, relationship type and properties adds one more
\* relationship between the two nodes, so k calls leave k of them.
C25_CreateRelationAppends == [][CreateRelationAppends]_vars

\* The second of two equal CreateRelation calls left two relationships from
\* the User's node to the Post's node.
C25_Witness ==
    /\ last.op = "CreateRelation" /\ last.err = NoErr /\ last.count = 1
    /\ last.typ = "User" /\ Len(last.ent) = 4 /\ last.ent[1] = "Post"
    /\ Cardinality(NodesOfKey(User, last.key, nodes)) = 1
    /\ Cardinality(NodesOfKey(Post, last.ent[2], nodes)) = 1
    /\ Cardinality(Between(rels, NodesOfKey(User, last.key, nodes),
                            NodesOfKey(Post, last.ent[2], nodes),
                            last.ent[3], last.ent[4])) = 2

\* A Delete step of a key without node returns no error and leaves nodes and
\* relationships as they were; so does a Delete step right after a Delete of
\* the same key, which returned no error either.
DeleteUnmatched ==
    last'.op = "Delete" =>
        /\ NodesOfKey(TypeNamed(last'.typ), last'.key, nodes) = {} =>
                last'.err = NoErr /\ nodes' = nodes /\ rels' = rels
        /\ (last.op = "Delete" /\ last.typ = last'.typ /\ last.key = last'.key) =>
                /\ last.err = NoErr /\ last'.err = NoErr
                /\ nodes' = nodes /\ rels' = rels

\* C26: Delete of a key that matches no node returns no error and leaves
\* every node and relationship unchanged; Delete(k) after Delete(k) leaves
\* the store of the first, and both succeed.
C26_DeleteUnmatchedIdempotent == [][DeleteUnmatched]_vars

\* A Delete of a key never saved or already deleted returned without error
\* in a store that holds nodes and a relationship.
C26_Witness ==
    /\ last.op = "Delete" /\ last.err = NoErr
    /\ last.prior = <<>> /\ last.count = 0
    /\ NodesOfKey(TypeNamed(last.typ), last.key, nodes) = {}
    /\ nodes # {} /\ rels # {}

(***************************************************************************)
(* Properties of SpecRunner.                                               *)
(***************************************************************************)
\* The property names of the type's field-to-property mapping.
MappedProps(typ) == {MetaOf(typ).Mappings[f] : f \in DOMAIN MetaOf(typ).Mappings}

\* The runner answered without error and with this many rows.
Succeeded == runner.err = NoErr
RowCount == Len(runner.Records)

\* The call's QueryBuilder built.
Built == ~last.arg.buildErr

\* C5: FindByProperty with a name that is no property name of the type's
\* mapping returns the validation error without invoking the runner; with a
\* mapped name (the primary key's property among them) it passes the
\* validation and invokes the runner.
C5_FindByPropertyValidates ==
    last.op = "FindByProperty" =>
        IF last.arg \in MappedProps(TypeNamed(last.typ))
        THEN last.ran /\ last.err # ErrNotMapped
        ELSE ~last.ran /\ last.err = ErrNotMapped /\ last.ent = <<>>

\* FindByProperty on the primary key's property went to the runner and came
\* back with a record.
C5_Witness ==
    /\ last.op = "FindByProperty" /\ last.typ = "User"
    /\ last.arg = MetaOf(User).PKProp
    /\ last.ran /\ last.err = NoErr /\ Len(last.ent) = 1

\* The identifiers of a list of graph elements, and of the values of one
\* kind in the runner's rows.
IDsOf(elems) == {elems[i].ID : i \in 1..Len(elems)}

RowValueIds(kind) ==
    {runner.Records[i].Values[j].ElementId :
        <<i, j>> \in {x \in (1..RowCount) \X (1..3) :
                        /\ x[2] <= Len(runner.Records[x[1]].Values)
                        /\ runner.Records[x[1]].Values[x[2]].kind = kind}}

NoRepeat(elems) == Cardinality(IDsOf(elems)) = Len(elems)

\* C6: for every result with rows, FindGraph's node list and edge list hold
\* each identifier once, and hold exactly the identifiers of the nodes and
\* of the relationships among the row values.
C6_FindGraphDedup ==
    (last.op = "FindGraph" /\ Built /\ Succeeded /\ RowCount > 0) =>
        /\ last.err = NoErr
        /\ Len(last.ent) = 1
        /\ NoRepeat(last.ent[1].Nodes)
        /\ NoRepeat(last.ent[1].Edges)
        /\ IDsOf(last.ent[1].Nodes) = RowValueIds("node")
        /\ IDsOf(last.ent[1].Edges) = RowValueIds("rel")

\* Two rows share both nodes and differ in the relationship: two nodes and
\* two edges come back.
C6_Witness ==
    /\ last.op = "FindGraph" /\ last.err = NoErr
    /\ RowCount = 2
    /\ runner.Records[1].Values[1] = runner.Records[2].Values[1]
    /\ runner.Records[1].Values[1].kind = "node"
    /\ Len(last.ent[1].Nodes) = 2
    /\ Len(last.ent[1].Edges) = 2

\* C7: on two or more rows FindByID and FindOne return the error of an
\* unexpected number of records, which is not ErrNotFound and does not wrap
\* it, and no record.
C7_ManyRowsConsistencyError ==
    (/\ last.op \in {"FindByID", "FindOne"}
     /\ last.op = "FindOne" => Built
     /\ Succeeded /\ RowCount >= 2) =>
        /\ last.err = ErrExpectedOne
        /\ ~Is(last.err, ErrNotFound)
        /\ last.ent = <<>>

\* FindOne on two rows of two distinct primary keys.
C7_Witness ==
    /\ last.op = "FindOne" /\ last.ran
    /\ RowCount = 2
    /\ runner.Records[1] = Row(<<"n">>, <<Node1>>)
    /\ runner.Records[2] = Row(<<"n">>, <<Node2>>)
    /\ last.err = ErrExpectedOne

\* C8: on a result without rows FindByID, FindOne, FindFirst and FindGraph
\* return ErrNotFound itself and no value.
C8_NoRowsNotFound ==
    (/\ last.op \in {"FindByID", "FindOne", "FindFirst", "FindGraph"}
     /\ last.op # "FindByID" => Built
     /\ Succeeded /\ RowCount = 0) =>
        /\ last.err = ErrNotFound
        /\ last.ent = <<>>

\* FindGraph came back from a runner that answered without rows.
C8_Witness ==
    /\ last.op = "FindGraph" /\ last.ran
    /\ Succeeded /\ RowCount = 0
    /\ last.err = ErrNotFound

\* C9: on a result without rows FindAll, FindByProperty with a mapped name
\* and Find return no error and a sequence without elements.
C9_NoRowsEmptySequence ==
    (/\ last.op \in {"FindAll", "FindByProperty", "Find"}
     /\ last.op = "Find" => Built
     /\ last.op = "FindByProperty" => last.arg \in MappedProps(TypeNamed(last.typ))
     /\ Succeeded /\ RowCount = 0) =>
        /\ last.err = NoErr
        /\ ~Is(last.err, ErrNotFound)
        /\ Len(last.ent) = 0

\* FindByProperty on a mapped name came back from a runner that answered
\* without rows.
C9_Witness ==
    /\ last.op = "FindByProperty" /\ last.ran
    /\ last.arg = "name"
    /\ Succeeded /\ RowCount = 0
    /\ last.err = NoErr

(***************************************************************************)
(* Properties of SpecRunner: errors, hydration and counts.                 *)
(***************************************************************************)
\* The operations that hand a statement to the runner, and those among them
\* that answer the runner's ErrNotFound with an empty result.
RunnerOps ==
    {"Save", "Delete", "FindByID", "FindAll", "FindByProperty", "Find", "FindOne",
     "FindFirst", "Count", "CountByProperty", "CountWithQuery", "CreateRelation",
     "FindGraph"}

EmptyOnNotFound == {"FindAll", "FindByProperty", "Find", "CountWithQuery"}

\* The call returned no record, no sequence (the nil one) and no number
\* other than 0.
NoSuccessValue == (last.ent = <<>> /\ last.isNil) \/ last.ent = <<"0">>

\* C15 as stated: whenever the runner returns an error, the operation
\* returns that error and no success value.
C15_RunnerErrorsSurfaceAlways ==
    (last.op \in RunnerOps /\ last.ran /\ runner.err # NoErr) =>
        (last.err = runner.err /\ NoSuccessValue)

\* C15 amended: the same, except that FindAll, FindByProperty, Find and
\* CountWithQuery answer a runner error that is or wraps ErrNotFound with an
\* empty sequence, respectively 0, and no error.
C15_RunnerErrorsSurface ==
    (last.op \in RunnerOps /\ last.ran /\ runner.err # NoErr) =>
        IF last.op \in EmptyOnNotFound /\ Is(runner.err, ErrNotFound)
        THEN /\ last.err = NoErr
             /\ IF last.op = "CountWithQuery" THEN last.ent = <<"0">>
                ELSE last.ent = <<>> /\ ~last.isNil
        ELSE last.err = runner.err /\ NoSuccessValue

\* FindOne handed on an error of the runner that wraps ErrNotFound.
C15_Witness ==
    /\ last.op = "FindOne" /\ last.ran
    /\ runner.err = ErrWrapsNotFound
    /\ last.err = ErrWrapsNotFound
    /\ last.ent = <<>>


\* The rows a call maps, and the record it made of row i: Find maps every
\* row, FindOne and FindFirst the first.
Hydrating == last.op \in {"Find", "FindOne", "FindFirst"} /\ last.ran /\ last.err = NoErr
MappedRows == IF last.op = "Find" THEN 1..RowCount ELSE {1}

\* The first graph-node value of a row.
HasNode(row) == \E j \in 1..Len(row.Values) : row.Values[j].kind = "node"

FirstNode(row) ==
    row.Values[CHOOSE j \in 1..Len(row.Values) :
                    /\ row.Values[j].kind = "node"
                    /\ \A k \in 1..(j - 1) : row.Values[k].kind # "node"]

\* The record holds, in every mapped field, the node's property of the
\* field's property name, and the zero value where the node has none and in
\* every field without annotation.
RecordOfNode(typ, ent, node) ==
    \A f \in FieldNames(typ) :
        IF f \in DOMAIN MetaOf(typ).Mappings /\ MetaOf(typ).Mappings[f] \in DOMAIN node.Props
        THEN ent[f] = node.Props[MetaOf(typ).Mappings[f]].v
        ELSE ent[f] = ""

\* C16: Find, FindOne and FindFirst return, for a row with a graph-node
\* value, a record whose mapped fields are the node's properties under the
\* fields' property names, zero where the node lacks the property and in
\* the fields without annotation.
C16_FullNodeHydration ==
    Hydrating =>
        \A i \in MappedRows :
            HasNode(runner.Records[i]) =>
                RecordOfNode(TypeNamed(last.typ), last.ent[i], FirstNode(runner.Records[i]))

\* Find mapped a path row with two nodes and then a node without name.
C16_Witness ==
    /\ last.op = "Find" /\ last.err = NoErr /\ last.typ = "User"
    /\ RowCount = 2
    /\ runner.Records[1] = Row(<<"u", "r", "p">>, <<Node1, Rel1, Node2>>)
    /\ runner.Records[2] = Row(<<"n">>, <<Node2>>)
    /\ last.ent = <<[UserID |-> "u1", Name |-> "Alice"], [UserID |-> "u2", Name |-> ""]>>

\* The columns of a row whose name is the property name or ends in a dot
\* and the property name.
ColumnsOf(row, propName) ==
    {j \in 1..Len(row.Keys) :
        \/ row.Keys[j] = propName
        \/ /\ Len(DotParts[row.Keys[j]]) > 1
           /\ DotParts[row.Keys[j]][Len(DotParts[row.Keys[j]])] = propName}

\* The record holds, in every mapped field, the value of the first column
\* of the field's property name (zero for a null), and zero where there is
\* no such column and in every field without annotation.
RecordOfColumns(typ, ent, row) ==
    \A f \in FieldNames(typ) :
        LET cols == IF f \in DOMAIN MetaOf(typ).Mappings
                    THEN ColumnsOf(row, MetaOf(typ).Mappings[f]) ELSE {}
        IN  IF cols = {} THEN ent[f] = ""
            ELSE \E j \in cols :
                    /\ \A k \in cols : j <= k
                    /\ ent[f] = IF row.Values[j].kind = "nil" THEN "" ELSE row.Values[j].v

\* C17: Find, FindOne and FindFirst return, for a row without a graph-node
\* value, a record in which each mapped field is the value of a column named
\* as the field's property or ending in a dot and that name, and is zero when
\* there is no such column.
C17_ProjectionHydration ==
    Hydrating =>
        \A i \in MappedRows :
            ~HasNode(runner.Records[i]) =>
                RecordOfColumns(TypeNamed(last.typ), last.ent[i], runner.Records[i])

\* FindOne mapped the columns u.name and u.userId; Find a row with neither.
C17_Witness ==
    /\ last.op \in {"FindOne", "Find"} /\ last.err = NoErr /\ last.typ = "User"
    /\ RowCount >= 1
    /\ runner.Records[1] = Row(<<"u.name", "u.userId">>, <<StrVal("Alice"), StrVal("u1")>>)
    /\ last.ent[1] = [UserID |-> "u1", Name |-> "Alice"]
    /\ last.op = "Find" =>
            /\ RowCount = 2
            /\ runner.Records[2] = Row(<<"count">>, <<IntVal("2")>>)
            /\ last.ent[2] = [UserID |-> "", Name |-> ""]


\* What Find returns for the query and the result set of the call.
FindOfCall == FindResult(TypeNamed(last.typ), last.arg, runner)

\* The call returned without error the first record of Find.
FirstOfFind ==
    /\ last.err = NoErr
    /\ FindOfCall.err = NoErr
    /\ last.ent = <<FindOfCall.ent[1]>>

\* C18: on a result set with rows FindFirst returns without error the first
\* record Find returns for it, and on a result set of one row so does
\* FindOne.
C18_FirstOfFindSameRecord ==
    /\ (last.op = "FindFirst" /\ last.ran /\ Succeeded /\ RowCount >= 1) => FirstOfFind
    /\ (last.op = "FindOne" /\ last.ran /\ Succeeded /\ RowCount = 1) => FirstOfFind


\* The counting operations, and the first row's column count.
CountOps == {"Count", "CountByProperty", "CountWithQuery"}
CountColumns == {j \in 1..Len(runner.Records[1].Keys) : runner.Records[1].Keys[j] = "count"}

\* C19: when the runner succeeds, Count, CountByProperty and CountWithQuery
\* return 0 and no error for zero rows, the 64-bit value of the first row's
\* column count when the row has one, and an error with no count when the
\* first row has no column count.
C19_CountResults ==
    (last.op \in CountOps /\ last.ran /\ Succeeded) =>
        IF RowCount = 0 THEN last.err = NoErr /\ last.ent = <<"0">>
        ELSE IF CountColumns = {} THEN last.err = ErrNoCount /\ last.ent = <<"0">>
        ELSE \A j \in CountColumns :
                runner.Records[1].Values[j].kind = "int64" =>
                    last.err = NoErr /\ last.ent = <<runner.Records[1].Values[j].v>>

\* A count came back from the first of two rows, the second without count.
C19_Witness ==
    /\ last.op \in CountOps /\ last.ran /\ Succeeded
    /\ RowCount = 2
    /\ runner.Records[1] = Row(<<"count">>, <<IntVal("2")>>)
    /\ runner.Records[2] = Row(<<"n">>, <<Node1>>)
    /\ last.err = NoErr /\ last.ent = <<"2">>

\* The errors an operation makes itself before it reaches the runner: of
\* the entity handed in, of the property name, of building the query.
LocalErrors == {ErrNotPointer, ErrNotMapped, ErrBuild, ErrBuildCount}

C22_NoAbortOnMismatch == last.op \in RunnerOps => last.err # Panic

\* No value of any row is a node or a relationship.
NoGraphValues ==
    \A i \in 1..RowCount : \A j \in 1..Len(runner.Records[i].Values) :
        runner.Records[i].Values[j].kind \notin {"node", "rel"}

\* C23: when the runner succeeds FindGraph returns ErrNotFound only for a
\* result without rows; for rows none of whose values is a node or a
\* relationship it returns no error and a graph with an empty node list and
\* an empty edge list.
C23_FindGraphEmptyGraph ==
    (last.op = "FindGraph" /\ last.ran /\ Succeeded) =>
        /\ last.err = ErrNotFound => RowCount = 0
        /\ (RowCount >= 1 /\ NoGraphValues) =>
                last.err = NoErr /\ last.ent = <<[Nodes |-> <<>>, Edges |-> <<>>]>>

\* FindGraph returned the empty graph for a row of strings and a path and a
\* row of a count.
C23_Witness ==
    /\ last.op = "FindGraph" /\ last.ran /\ Succeeded
    /\ RowCount = 2
    /\ runner.Records[1] = Row(<<"n", "count", "p">>, <<StrVal("u1"), StrVal("2"), Path1>>)
    /\ runner.Records[2] = Row(<<"count">>, <<IntVal("2")>>)
    /\ last.err = NoErr /\ last.ent = <<[Nodes |-> <<>>, Edges |-> <<>>]>>

\* C27: CountByProperty with a name that is no property name of the type's
\* mapping returns the validation error without invoking the runner, as
\* FindByProperty does, and with a mapped name invokes the runner.
C27_CountByPropertyValidates ==
    last.op = "CountByProperty" =>
        IF last.arg \in MappedProps(TypeNamed(last.typ))
        THEN last.ran /\ last.err # ErrNotMapped
        ELSE ~last.ran /\ last.err = ErrNotMapped

\* The record made of one node alone: its properties under the mapped
\* names, whatever its labels.
NodeRecord(typ, node) ==
    [f \in FieldNames(typ) |->
        IF f \in DOMAIN MetaOf(typ).Mappings /\ MetaOf(typ).Mappings[f] \in DOMAIN node.Props
        THEN node.Props[MetaOf(typ).Mappings[f]].v
        ELSE ""]

\* C28: a row of Find, FindOne or FindFirst with graph-node values hydrates
\* to the record of its first node in column order alone: the node's labels
\* are not compared with the type's label, and the later nodes and the
\* scalar columns of the row add nothing.
C28_FirstNodeOnly ==
    Hydrating =>
        \A i \in MappedRows :
            HasNode(runner.Records[i]) =>
                last.ent[i] = NodeRecord(TypeNamed(last.typ), FirstNode(runner.Records[i]))

\* Find on Twin mapped two rows of the same values in another column order,
\* User nodes around a column name, to different records.
C28_Witness ==
    /\ last.op = "Find" /\ last.err = NoErr /\ last.typ = "Twin"
    /\ RowCount = 2
    /\ runner.Records[1] = Row(<<"m", "name", "u">>, <<Node2, StrVal("Alicia"), Node1>>)
    /\ runner.Records[2] = Row(<<"u", "name", "m">>, <<Node1, StrVal("Alicia"), Node2>>)
    /\ last.ent = <<[TwinID |-> "", First |-> "", Second |-> ""],
                    [TwinID |-> "", First |-> "Alice", Second |-> "Alice"]>>

\* Row i came out as record i: of FindAll and FindByProperty the record of
\* the node in column n, of Find the record of the row's first node or of
\* its columns.
HydrationOfRow(i) ==
    LET typ == TypeNamed(last.typ)
        row == runner.Records[i]
    IN  IF last.op = "Find"
        THEN IF HasNode(row) THEN last.ent[i] = NodeRecord(typ, FirstNode(row))
             ELSE RecordOfColumns(typ, last.ent[i], row)
        ELSE /\ Get(row, "n").ok
             /\ Get(row, "n").val.kind = "node"
             /\ last.ent[i] = NodeRecord(typ, Get(row, "n").val)

\* C30: for every result set of n rows FindAll, FindByProperty and Find
\* return n records, the i-th the hydration of the i-th row.
C30_PluralShapePreserved ==
    (last.op \in {"FindAll", "FindByProperty", "Find"} /\ last.ran /\ Succeeded) =>
        /\ last.err = NoErr
        /\ Len(last.ent) = RowCount
        /\ \A i \in 1..RowCount : HydrationOfRow(i)

(***************************************************************************)
(* Properties of SpecConc.                                                 *)
(***************************************************************************)
\* What parseTagsFromType makes of the type.
Resolved(typ) == parseTagsFromType(typ).meta

\* The metadata a goroutine was handed for an entity is the resolver's
\* result for the entity's type, and the cache holds it under that type.
HandedResolved(entity, handed) ==
    handed # <<>> =>
        /\ handed[1] = Resolved(entity.typ)
        /\ entity.typ \in DOMAIN metaCache
        /\ metaCache[entity.typ] = Resolved(entity.typ)

\* C10: under every interleaving, each metadata handed to a CreateRelation
\* call equals the resolver's result for the type, every cache entry equals
\* the resolver's result for its key, and from the moment a call was handed
\* a type's metadata the cache holds the entry of that type.
C10_ResolutionRaceTolerant ==
    /\ \A p \in Procs : /\ HandedResolved(procs[p].from, procs[p].fromMeta)
                        /\ HandedResolved(procs[p].to, procs[p].toMeta)
    /\ \A typ \in DOMAIN metaCache : metaCache[typ] = Resolved(typ)

\* Two goroutines both derived and stored User's metadata; all calls have
\* returned without error.
C10_Witness ==
    /\ stores[User] = 2
    /\ \A p \in Procs : procs[p].pc = "idle" /\ procs[p].err = NoErr
    /\ \A p \in Procs : procs[p].fromMeta = <<Resolved(User)>>
    /\ metaCache[User] = Resolved(User)

\* C20: under every interleaving of concurrent CreateRelation calls on one
\* manager, the cache entry of a record type is written at most once.
C20_CacheWrittenOnce == \A typ \in ConcTypes : stores[typ] <= 1

(***************************************************************************)
(* Properties of SpecManager.                                              *)
(***************************************************************************)
\* The type resolves.
Valid(typ) == parseTagsFromType(typ).err = NoErr

\* C11: on one manager the resolver runs at most once for a type that
\* resolves: every use after the first, through RepositoryFor or through
\* CreateRelation, is served from the cache.
C11_ResolvedOncePerType ==
    \A typ \in app : Valid(typ) => resolves[typ] <= 1

\* The fields that carry an annotation, those that carry the marker, and the
\* names a tag's property tokens declare.
Annotated(typ) == {i \in 1..Len(typ.fields) : typ.fields[i].tag # <<>>}

Marked(typ) ==
    {i \in Annotated(typ) :
        \E j \in 1..Len(typ.fields[i].tag) : typ.fields[i].tag[j].tok = "pk"}

DeclaredNames(tag) ==
    {tag[j].arg : j \in {k \in 1..Len(tag) : tag[k].tok = "property:" /\ tag[k].arg # ""}}

\* The name the last property token of a tag declares: "" when there is no
\* token or the last one is empty.
LastDeclared(tag) ==
    IF \A j \in 1..Len(tag) : tag[j].tok # "property:" THEN ""
    ELSE LET j == CHOOSE k \in 1..Len(tag) :
                    /\ tag[k].tok = "property:"
                    /\ \A m \in (k + 1)..Len(tag) : tag[m].tok # "property:"
         IN  tag[j].arg

IsRecord(typ) == (IF typ.kind = "ptr" THEN typ.elemKind ELSE typ.kind) = "struct"

\* The reference definition as stated: failure.
RefFails(typ) ==
    \/ ~IsRecord(typ)
    \/ \E i \in Annotated(typ) : DeclaredNames(typ.fields[i].tag) = {}
    \/ Marked(typ) = {}

\* The reference definition as stated: the metadata of a type that does not
\* fail.
RefMeta(typ, meta) ==
    /\ meta.Label = typ.name
    /\ DOMAIN meta.Mappings = {typ.fields[i].name : i \in Annotated(typ)}
    /\ \A i \in Annotated(typ) :
            meta.Mappings[typ.fields[i].name] \in DeclaredNames(typ.fields[i].tag)
    /\ \E i \in Marked(typ) : /\ meta.PKField = typ.fields[i].name
                              /\ meta.PKProp = meta.Mappings[typ.fields[i].name]

\* C12 as stated: the resolver fails iff the type is no record after one
\* dereference, or an annotated field has no non-empty property token, or no
\* annotated field carries the marker; otherwise label, mapping and primary
\* key are those the annotations declare.
C12_ResolverMatchesReferenceAsStated ==
    last.op = "RepositoryFor" =>
        /\ last.err # NoErr <=> RefFails(last.typ)
        /\ last.err = NoErr => RefMeta(last.typ, last.ent[1])

\* The reference definition, a tag's last property token deciding.
RefFailsLast(typ) ==
    \/ ~IsRecord(typ)
    \/ \E i \in Annotated(typ) : LastDeclared(typ.fields[i].tag) = ""
    \/ Marked(typ) = {}

RefMetaLast(typ, meta) ==
    /\ meta.Label = typ.name
    /\ DOMAIN meta.Mappings = {typ.fields[i].name : i \in Annotated(typ)}
    /\ \A i \in Annotated(typ) :
            meta.Mappings[typ.fields[i].name] = LastDeclared(typ.fields[i].tag)
    /\ \E i \in Marked(typ) : /\ \A k \in Marked(typ) : k <= i
                              /\ meta.PKField = typ.fields[i].name
                              /\ meta.PKProp = LastDeclared(typ.fields[i].tag)

\* C12 amended: the resolver fails iff the type is no record after one
\* dereference, or the last property token of an annotated field is absent
\* or empty, or no annotated field carries the marker; otherwise the label
\* is the type's name, the mapping holds exactly the annotated fields, each
\* under the name of its last property token, and the primary key is the
\* last marked field with its property.
C12_ResolverMatchesReference ==
    last.op = "RepositoryFor" =>
        /\ last.err # NoErr <=> RefFailsLast(last.typ)
        /\ last.err = ErrNotStruct <=> ~IsRecord(last.typ)
        /\ last.err = NoErr => RefMetaLast(last.typ, last.ent[1])

\* A type whose first field carries two property tokens resolved.
C12_Witness ==
    /\ last.op = "RepositoryFor" /\ last.err = NoErr
    /\ Len(last.typ.fields) = 2
    /\ last.typ.fields[1].tag = <<PropPart("key"), PropPart("alt")>>
    /\ last.typ.fields[2].tag = <<PkPart, PropPart("key")>>
    /\ last.ent[1].Mappings["ID"] = "alt"

\* C13: a type that resolves has exactly one field carrying the marker.
C13_ExactlyOnePrimaryKey ==
    (last.op = "RepositoryFor" /\ last.err = NoErr) =>
        Cardinality(Marked(last.typ)) = 1

\* Every cache entry is under a type that resolves and is the resolver's
\* result for it.
CacheHoldsResolved ==
    \A typ \in DOMAIN metaCache :
        /\ parseTagsFromType(typ).err = NoErr
        /\ metaCache[typ] = parseTagsFromType(typ).meta

\* A step keeps every entry as it is, and only a CreateRelation step changes
\* the cache.
CacheKept ==
    /\ \A typ \in DOMAIN metaCache :
            typ \in DOMAIN metaCache' /\ metaCache'[typ] = metaCache[typ]
    /\ metaCache' # metaCache => last'.op = "CreateRelation"

\* C29: in every reachable state of a manager each cache entry is keyed by
\* a type that resolved and equals the resolver's result for it, a type that
\* fails to resolve is never stored, no entry is ever removed or replaced
\* by another value, and only CreateRelation writes the cache: RepositoryFor,
\* the repository operations and FindGraph leave it as it is.
C29_CacheInvariant == []CacheHoldsResolved /\ [][CacheKept]_vars

\* CreateRelation cached User for the from-entity and failed on a
\* to-entity whose type does not resolve, which is not in the cache.
C29_Witness ==
    /\ app = {User, IntType}
    /\ last.op = "CreateRelation" /\ last.typ = User
    /\ last.err \notin {NoErr, ErrNotPointer, ErrRunner}
    /\ DOMAIN metaCache = {User}
    /\ resolves[IntType] > 0

====
